---------------------------- MODULE Spec2Model ----------------------------
(***************************************************************************)
(* Model of the text-structuring engine of the PDF-to-Excel converter      *)
(* (src/app.py): the table pattern detector, the line classifier and the   *)
(* page loop of process_pdf_to_structured_data, the workbook writer        *)
(* create_consolidated_excel, and process_pdf, which runs the two and      *)
(* saves the workbook.                                                     *)
(*                                                                         *)
(* A text is a sequence of characters; a character is a one-character      *)
(* string.  The bullet glyph U+2022, which a TLA+ string literal cannot    *)
(* hold, is the token written "\\u2022".                                   *)
(***************************************************************************)
EXTENDS Naturals, Sequences, FiniteSets

VARIABLES
    text,                 \* the text argument of the function being run
    lines,                \* text.strip().split('\n')
    idx,                  \* number of lines the for loop has consumed
    current_table,        \* detect_table_patterns_in_text: open candidate
    potential_tables,     \* detect_table_patterns_in_text: emitted tables
    structured_data,      \* extract_structured_data_from_text: the buckets
    pc,                   \* position of the function being run
    images,               \* what OCR yields for each page image, in order
    page_num,             \* pages the page loop has consumed
    ocr_tables,           \* process_pdf_to_structured_data: local list
    structured_text_data, \* process_pdf_to_structured_data: local buckets
    all_data,             \* process_pdf_to_structured_data: the model
    ppc,                  \* position of process_pdf_to_structured_data
    stdout,               \* the [WARNING] and [ERROR] lines printed so far
    all_tables,           \* create_consolidated_excel: the tagged tables
    ws_main,              \* the cells written to the "Data" sheet, in order
    current_row,          \* create_consolidated_excel: next row to write
    ws_summary,           \* the count rows written to the "Summary" sheet
    xpc,                  \* position of create_consolidated_excel
    convert_from_path,    \* the function the name is bound to in app
    image_to_string,      \* the function bound to pytesseract.image_to_string
    os_path,              \* the module os.path is on the platform
    path,                 \* process_pdf: the argument
    excel_name,           \* process_pdf: local
    output_folder,        \* the files in app.config["OUTPUT_FOLDER"]
    result,               \* what process_pdf has returned to its caller
    qpc,                  \* position of process_pdf
    request,              \* the request upload_file is serving
    upload_folder,        \* the files in app.config["UPLOAD_FOLDER"]
    flashed,              \* the messages flashed so far
    response,             \* what upload_file has returned
    upc                   \* position of upload_file

vars == <<text, lines, idx, current_table, potential_tables, structured_data,
          pc, images, page_num, ocr_tables, structured_text_data, all_data,
          ppc, stdout, all_tables, ws_main, current_row, ws_summary, xpc,
          convert_from_path, image_to_string, os_path, path, excel_name,
          output_folder, result, qpc, request, upload_folder, flashed,
          response, upc>>

fnVars == <<text, lines, idx, current_table, potential_tables,
            structured_data, pc>>

docVars == <<images, page_num, ocr_tables, structured_text_data, all_data,
             ppc, stdout>>

xlVars == <<all_tables, ws_main, current_row, ws_summary, xpc>>

\* what the names are bound to: the two functions the tests replace, and the
\* path module of the platform
bindings == <<convert_from_path, image_to_string, os_path>>

procVars == <<path, excel_name, output_folder, result, qpc>>

webVars == <<request, upload_folder, flashed, response, upc>>

appVars == <<xlVars, bindings, procVars, webVars>>

-----------------------------------------------------------------------------
(* Bounds of the model. *)

\* longest text enumerated character by character for the detector
MaxTextLen == 5
\* most lines of a text assembled from the sample lines
MaxLines == 5
\* longest line enumerated character by character for the classifier
MaxLineLen == 4
\* longest line enumerated over the date alphabet
MaxDateLen == 7
\* most lines of a text assembled from the lines of several rules
MaxMixLines == 3
\* longest text of whitespace only that is enumerated
MaxBlankLen == 3
\* most pages of a document
MaxPages == 2
\* most tables of one native extractor in a model given to the writer
MaxTables == 2

-----------------------------------------------------------------------------
(* Characters. *)

\* A text is a sequence of characters.  A printable ASCII character, and each
\* of the line feed, tab, carriage return and form feed, is the string of that
\* one character; any other character is the string of its Python escape,
\* "\\u" and four hexadecimal digits, or "\\U" and eight above U+FFFF.
BULLET == "\\u2022"

\* n in hexadecimal, in width digits
RECURSIVE Hex(_, _)
Hex(n, width) ==
    LET digit == <<"0", "1", "2", "3", "4", "5", "6", "7", "8", "9",
                   "a", "b", "c", "d", "e", "f">>
    IN  IF width = 0 THEN ""
        ELSE Hex(n \div 16, width - 1) \o digit[(n % 16) + 1]

\* the character of a code point
chr(cp) == IF cp < 65536 THEN "\\u" \o Hex(cp, 4) ELSE "\\U" \o Hex(cp, 8)

\* the characters of a set of code point ranges <<first, last, step>>
CharsIn(ranges) ==
    UNION {{chr(r[1] + k * r[3]) : k \in 0..((r[2] - r[1]) \div r[3])} :
              r \in ranges}

\* The tables below are those of the Unicode database of the interpreter
\* (CPython 3.11, Unicode 14.0.0), as ranges of code points.

\* the characters c.isspace() holds of, but for the five written directly
SpaceRanges ==
    {<<11, 11, 1>>, <<28, 31, 1>>, <<133, 133, 1>>, <<160, 160, 1>>,
     <<5760, 5760, 1>>, <<8192, 8202, 1>>, <<8232, 8233, 1>>,
     <<8239, 8239, 1>>, <<8287, 8287, 1>>, <<12288, 12288, 1>>}

\* the characters the regex class \d matches (the decimal digits of every
\* script), but for 0-9
DecimalRanges ==
    {<<1632, 1641, 1>>, <<1776, 1785, 1>>, <<1984, 1993, 1>>,
     <<2406, 2415, 1>>, <<2534, 2543, 1>>, <<2662, 2671, 1>>,
     <<2790, 2799, 1>>, <<2918, 2927, 1>>, <<3046, 3055, 1>>,
     <<3174, 3183, 1>>, <<3302, 3311, 1>>, <<3430, 3439, 1>>,
     <<3558, 3567, 1>>, <<3664, 3673, 1>>, <<3792, 3801, 1>>,
     <<3872, 3881, 1>>, <<4160, 4169, 1>>, <<4240, 4249, 1>>,
     <<6112, 6121, 1>>, <<6160, 6169, 1>>, <<6470, 6479, 1>>,
     <<6608, 6617, 1>>, <<6784, 6793, 1>>, <<6800, 6809, 1>>,
     <<6992, 7001, 1>>, <<7088, 7097, 1>>, <<7232, 7241, 1>>,
     <<7248, 7257, 1>>, <<42528, 42537, 1>>, <<43216, 43225, 1>>,
     <<43264, 43273, 1>>, <<43472, 43481, 1>>, <<43504, 43513, 1>>,
     <<43600, 43609, 1>>, <<44016, 44025, 1>>, <<65296, 65305, 1>>,
     <<66720, 66729, 1>>, <<68912, 68921, 1>>, <<69734, 69743, 1>>,
     <<69872, 69881, 1>>, <<69942, 69951, 1>>, <<70096, 70105, 1>>,
     <<70384, 70393, 1>>, <<70736, 70745, 1>>, <<70864, 70873, 1>>,
     <<71248, 71257, 1>>, <<71360, 71369, 1>>, <<71472, 71481, 1>>,
     <<71904, 71913, 1>>, <<72016, 72025, 1>>, <<72784, 72793, 1>>,
     <<73040, 73049, 1>>, <<73120, 73129, 1>>, <<92768, 92777, 1>>,
     <<92864, 92873, 1>>, <<93008, 93017, 1>>, <<120782, 120831, 1>>,
     <<123200, 123209, 1>>, <<123632, 123641, 1>>, <<125264, 125273, 1>>,
     <<130032, 130041, 1>>}

\* the characters outside ASCII that count as uppercase in str.isupper
UppercaseRanges ==
    {<<192, 214, 1>>, <<216, 222, 1>>, <<256, 310, 2>>, <<313, 327, 2>>,
     <<330, 376, 2>>, <<377, 381, 2>>, <<385, 386, 1>>, <<388, 388, 1>>,
     <<390, 391, 1>>, <<393, 395, 1>>, <<398, 401, 1>>, <<403, 404, 1>>,
     <<406, 408, 1>>, <<412, 413, 1>>, <<415, 416, 1>>, <<418, 422, 2>>,
     <<423, 423, 1>>, <<425, 425, 1>>, <<428, 428, 1>>, <<430, 431, 1>>,
     <<433, 435, 1>>, <<437, 437, 1>>, <<439, 440, 1>>, <<444, 444, 1>>,
     <<452, 452, 1>>, <<455, 455, 1>>, <<458, 458, 1>>, <<461, 475, 2>>,
     <<478, 494, 2>>, <<497, 497, 1>>, <<500, 500, 1>>, <<502, 504, 1>>,
     <<506, 562, 2>>, <<570, 571, 1>>, <<573, 574, 1>>, <<577, 577, 1>>,
     <<579, 582, 1>>, <<584, 590, 2>>, <<880, 880, 1>>, <<882, 882, 1>>,
     <<886, 886, 1>>, <<895, 895, 1>>, <<902, 902, 1>>, <<904, 906, 1>>,
     <<908, 908, 1>>, <<910, 911, 1>>, <<913, 929, 1>>, <<931, 939, 1>>,
     <<975, 975, 1>>, <<978, 980, 1>>, <<984, 1006, 2>>, <<1012, 1012, 1>>,
     <<1015, 1015, 1>>, <<1017, 1018, 1>>, <<1021, 1071, 1>>,
     <<1120, 1152, 2>>, <<1162, 1216, 2>>, <<1217, 1229, 2>>,
     <<1232, 1326, 2>>, <<1329, 1366, 1>>, <<4256, 4293, 1>>,
     <<4295, 4295, 1>>, <<4301, 4301, 1>>, <<5024, 5109, 1>>,
     <<7312, 7354, 1>>, <<7357, 7359, 1>>, <<7680, 7828, 2>>,
     <<7838, 7934, 2>>, <<7944, 7951, 1>>, <<7960, 7965, 1>>,
     <<7976, 7983, 1>>, <<7992, 7999, 1>>, <<8008, 8013, 1>>,
     <<8025, 8031, 2>>, <<8040, 8047, 1>>, <<8120, 8123, 1>>,
     <<8136, 8139, 1>>, <<8152, 8155, 1>>, <<8168, 8172, 1>>,
     <<8184, 8187, 1>>, <<8450, 8450, 1>>, <<8455, 8455, 1>>,
     <<8459, 8461, 1>>, <<8464, 8466, 1>>, <<8469, 8469, 1>>,
     <<8473, 8477, 1>>, <<8484, 8490, 2>>, <<8491, 8493, 1>>,
     <<8496, 8499, 1>>, <<8510, 8511, 1>>, <<8517, 8517, 1>>,
     <<8544, 8559, 1>>, <<8579, 8579, 1>>, <<9398, 9423, 1>>,
     <<11264, 11311, 1>>, <<11360, 11360, 1>>, <<11362, 11364, 1>>,
     <<11367, 11373, 2>>, <<11374, 11376, 1>>, <<11378, 11378, 1>>,
     <<11381, 11381, 1>>, <<11390, 11392, 1>>, <<11394, 11490, 2>>,
     <<11499, 11499, 1>>, <<11501, 11501, 1>>, <<11506, 11506, 1>>,
     <<42560, 42604, 2>>, <<42624, 42650, 2>>, <<42786, 42798, 2>>,
     <<42802, 42862, 2>>, <<42873, 42877, 2>>, <<42878, 42886, 2>>,
     <<42891, 42891, 1>>, <<42893, 42893, 1>>, <<42896, 42896, 1>>,
     <<42898, 42898, 1>>, <<42902, 42922, 2>>, <<42923, 42926, 1>>,
     <<42928, 42932, 1>>, <<42934, 42948, 2>>, <<42949, 42951, 1>>,
     <<42953, 42953, 1>>, <<42960, 42960, 1>>, <<42966, 42966, 1>>,
     <<42968, 42968, 1>>, <<42997, 42997, 1>>, <<65313, 65338, 1>>,
     <<66560, 66599, 1>>, <<66736, 66771, 1>>, <<66928, 66938, 1>>,
     <<66940, 66954, 1>>, <<66956, 66962, 1>>, <<66964, 66965, 1>>,
     <<68736, 68786, 1>>, <<71840, 71871, 1>>, <<93760, 93791, 1>>,
     <<119808, 119833, 1>>, <<119860, 119885, 1>>, <<119912, 119937, 1>>,
     <<119964, 119964, 1>>, <<119966, 119967, 1>>, <<119970, 119970, 1>>,
     <<119973, 119974, 1>>, <<119977, 119980, 1>>, <<119982, 119989, 1>>,
     <<120016, 120041, 1>>, <<120068, 120069, 1>>, <<120071, 120074, 1>>,
     <<120077, 120084, 1>>, <<120086, 120092, 1>>, <<120120, 120121, 1>>,
     <<120123, 120126, 1>>, <<120128, 120132, 1>>, <<120134, 120134, 1>>,
     <<120138, 120144, 1>>, <<120172, 120197, 1>>, <<120224, 120249, 1>>,
     <<120276, 120301, 1>>, <<120328, 120353, 1>>, <<120380, 120405, 1>>,
     <<120432, 120457, 1>>, <<120488, 120512, 1>>, <<120546, 120570, 1>>,
     <<120604, 120628, 1>>, <<120662, 120686, 1>>, <<120720, 120744, 1>>,
     <<120778, 120778, 1>>, <<125184, 125217, 1>>, <<127280, 127305, 1>>,
     <<127312, 127337, 1>>, <<127344, 127369, 1>>}

\* the characters outside ASCII that count as lowercase or titlecase in
\* str.isupper
LowercaseRanges ==
    {<<170, 170, 1>>, <<181, 181, 1>>, <<186, 186, 1>>, <<223, 246, 1>>,
     <<248, 255, 1>>, <<257, 311, 2>>, <<312, 328, 2>>, <<329, 375, 2>>,
     <<378, 382, 2>>, <<383, 384, 1>>, <<387, 387, 1>>, <<389, 389, 1>>,
     <<392, 392, 1>>, <<396, 397, 1>>, <<402, 402, 1>>, <<405, 405, 1>>,
     <<409, 411, 1>>, <<414, 414, 1>>, <<417, 421, 2>>, <<424, 424, 1>>,
     <<426, 427, 1>>, <<429, 429, 1>>, <<432, 432, 1>>, <<436, 436, 1>>,
     <<438, 438, 1>>, <<441, 442, 1>>, <<445, 447, 1>>, <<453, 454, 1>>,
     <<456, 457, 1>>, <<459, 460, 1>>, <<462, 476, 2>>, <<477, 495, 2>>,
     <<496, 496, 1>>, <<498, 499, 1>>, <<501, 501, 1>>, <<505, 563, 2>>,
     <<564, 569, 1>>, <<572, 572, 1>>, <<575, 576, 1>>, <<578, 578, 1>>,
     <<583, 591, 2>>, <<592, 659, 1>>, <<661, 696, 1>>, <<704, 705, 1>>,
     <<736, 740, 1>>, <<837, 837, 1>>, <<881, 881, 1>>, <<883, 883, 1>>,
     <<887, 887, 1>>, <<890, 893, 1>>, <<912, 912, 1>>, <<940, 974, 1>>,
     <<976, 977, 1>>, <<981, 983, 1>>, <<985, 1007, 2>>, <<1008, 1011, 1>>,
     <<1013, 1013, 1>>, <<1016, 1016, 1>>, <<1019, 1020, 1>>,
     <<1072, 1119, 1>>, <<1121, 1153, 2>>, <<1163, 1215, 2>>,
     <<1218, 1230, 2>>, <<1231, 1327, 2>>, <<1376, 1416, 1>>,
     <<4304, 4346, 1>>, <<4349, 4351, 1>>, <<5112, 5117, 1>>,
     <<7296, 7304, 1>>, <<7424, 7615, 1>>, <<7681, 7829, 2>>,
     <<7830, 7837, 1>>, <<7839, 7935, 2>>, <<7936, 7943, 1>>,
     <<7952, 7957, 1>>, <<7968, 7975, 1>>, <<7984, 7991, 1>>,
     <<8000, 8005, 1>>, <<8016, 8023, 1>>, <<8032, 8039, 1>>,
     <<8048, 8061, 1>>, <<8064, 8116, 1>>, <<8118, 8119, 1>>,
     <<8124, 8124, 1>>, <<8126, 8126, 1>>, <<8130, 8132, 1>>,
     <<8134, 8135, 1>>, <<8140, 8140, 1>>, <<8144, 8147, 1>>,
     <<8150, 8151, 1>>, <<8160, 8167, 1>>, <<8178, 8180, 1>>,
     <<8182, 8183, 1>>, <<8188, 8188, 1>>, <<8305, 8305, 1>>,
     <<8319, 8319, 1>>, <<8336, 8348, 1>>, <<8458, 8458, 1>>,
     <<8462, 8463, 1>>, <<8467, 8467, 1>>, <<8495, 8495, 1>>,
     <<8500, 8500, 1>>, <<8505, 8505, 1>>, <<8508, 8509, 1>>,
     <<8518, 8521, 1>>, <<8526, 8526, 1>>, <<8560, 8575, 1>>,
     <<8580, 8580, 1>>, <<9424, 9449, 1>>, <<11312, 11359, 1>>,
     <<11361, 11361, 1>>, <<11365, 11366, 1>>, <<11368, 11372, 2>>,
     <<11377, 11377, 1>>, <<11379, 11380, 1>>, <<11382, 11389, 1>>,
     <<11393, 11491, 2>>, <<11492, 11492, 1>>, <<11500, 11500, 1>>,
     <<11502, 11502, 1>>, <<11507, 11507, 1>>, <<11520, 11557, 1>>,
     <<11559, 11559, 1>>, <<11565, 11565, 1>>, <<42561, 42605, 2>>,
     <<42625, 42651, 2>>, <<42652, 42653, 1>>, <<42787, 42799, 2>>,
     <<42800, 42801, 1>>, <<42803, 42863, 2>>, <<42864, 42872, 1>>,
     <<42874, 42874, 1>>, <<42876, 42876, 1>>, <<42879, 42887, 2>>,
     <<42892, 42892, 1>>, <<42894, 42894, 1>>, <<42897, 42897, 1>>,
     <<42899, 42901, 1>>, <<42903, 42921, 2>>, <<42927, 42927, 1>>,
     <<42933, 42947, 2>>, <<42952, 42952, 1>>, <<42954, 42954, 1>>,
     <<42961, 42969, 2>>, <<42998, 42998, 1>>, <<43000, 43002, 1>>,
     <<43824, 43866, 1>>, <<43868, 43880, 1>>, <<43888, 43967, 1>>,
     <<64256, 64262, 1>>, <<64275, 64279, 1>>, <<65345, 65370, 1>>,
     <<66600, 66639, 1>>, <<66776, 66811, 1>>, <<66967, 66977, 1>>,
     <<66979, 66993, 1>>, <<66995, 67001, 1>>, <<67003, 67004, 1>>,
     <<67456, 67456, 1>>, <<67459, 67461, 1>>, <<67463, 67504, 1>>,
     <<67506, 67514, 1>>, <<68800, 68850, 1>>, <<71872, 71903, 1>>,
     <<93792, 93823, 1>>, <<119834, 119859, 1>>, <<119886, 119892, 1>>,
     <<119894, 119911, 1>>, <<119938, 119963, 1>>, <<119990, 119993, 1>>,
     <<119995, 119995, 1>>, <<119997, 120003, 1>>, <<120005, 120015, 1>>,
     <<120042, 120067, 1>>, <<120094, 120119, 1>>, <<120146, 120171, 1>>,
     <<120198, 120223, 1>>, <<120250, 120275, 1>>, <<120302, 120327, 1>>,
     <<120354, 120379, 1>>, <<120406, 120431, 1>>, <<120458, 120485, 1>>,
     <<120514, 120538, 1>>, <<120540, 120545, 1>>, <<120572, 120596, 1>>,
     <<120598, 120603, 1>>, <<120630, 120654, 1>>, <<120656, 120661, 1>>,
     <<120688, 120712, 1>>, <<120714, 120719, 1>>, <<120746, 120770, 1>>,
     <<120772, 120777, 1>>, <<120779, 120779, 1>>, <<122624, 122633, 1>>,
     <<122635, 122654, 1>>, <<125218, 125251, 1>>}

\* str.strip() and the regex class \s: the characters of str.isspace
Whitespace == {" ", "\t", "\n", "\r", "\f"} \cup CharsIn(SpaceRanges)

\* the regex class \d
Digits ==
    {"0", "1", "2", "3", "4", "5", "6", "7", "8", "9"}
        \cup CharsIn(DecimalRanges)

\* str.isupper: the cased characters that are uppercase
UpperLetters ==
    {"A", "B", "C", "D", "E", "F", "G", "H", "I", "J", "K", "L", "M", "N",
     "O", "P", "Q", "R", "S", "T", "U", "V", "W", "X", "Y", "Z"}
        \cup CharsIn(UppercaseRanges)

\* str.isupper: the cased characters that are not uppercase (lowercase and
\* titlecase); one of them in a string makes isupper false
LowerLetters ==
    {"a", "b", "c", "d", "e", "f", "g", "h", "i", "j", "k", "l", "m", "n",
     "o", "p", "q", "r", "s", "t", "u", "v", "w", "x", "y", "z"}
        \cup CharsIn(LowercaseRanges)

Min(S) == CHOOSE m \in S : \A k \in S : m <= k

Max(S) == CHOOSE m \in S : \A k \in S : m >= k

-----------------------------------------------------------------------------
(* String operations of the Python runtime that the code calls. *)

\* s.strip()
strip(s) ==
    LET keep == {i \in 1..Len(s) : s[i] \notin Whitespace}
    IN  IF keep = {} THEN <<>> ELSE SubSeq(s, Min(keep), Max(keep))

\* s.split('\n'): the pieces between line feeds, [''] for the empty string
RECURSIVE split(_)
split(s) ==
    LET brk == {i \in 1..Len(s) : s[i] = "\n"}
    IN  IF brk = {} THEN <<s>>
        ELSE <<SubSeq(s, 1, Min(brk) - 1)>>
             \o split(SubSeq(s, Min(brk) + 1, Len(s)))

\* length of the match of \s{2,}|\t that starts at position i, 0 for none
SepMatch(s, i) ==
    IF i < Len(s) /\ s[i] \in Whitespace /\ s[i + 1] \in Whitespace
    THEN LET stop == {j \in i..Len(s) : s[j] \notin Whitespace}
         IN  IF stop = {} THEN Len(s) - i + 1 ELSE Min(stop) - i
    ELSE IF s[i] = "\t" THEN 1 ELSE 0

\* re.split(r'\s{2,}|\t', s) scanning from position i, piece open at start
RECURSIVE re_split_from(_, _, _)
re_split_from(s, start, i) ==
    IF i > Len(s) THEN <<SubSeq(s, start, Len(s))>>
    ELSE IF SepMatch(s, i) > 0
         THEN <<SubSeq(s, start, i - 1)>>
              \o re_split_from(s, i + SepMatch(s, i), i + SepMatch(s, i))
         ELSE re_split_from(s, start, i + 1)

re_split(s) == re_split_from(s, 1, 1)

\* re.search(r'\s{2,}', line) or '\t' in line
LooksTabular(line) ==
    \/ \E i \in 1..(Len(line) - 1) :
          line[i] \in Whitespace /\ line[i + 1] \in Whitespace
    \/ \E i \in 1..Len(line) : line[i] = "\t"

\* [cell.strip() for cell in cells if cell.strip()]
StripCells(cells) ==
    LET kept == SelectSeq(cells, LAMBDA c : strip(c) # <<>>)
    IN  [k \in 1..Len(kept) |-> strip(kept[k])]

\* cells of one line: the split followed by the filter
RowCells(line) == StripCells(re_split(line))

-----------------------------------------------------------------------------
(* detect_table_patterns_in_text *)

\* least number of columns of a row
MinCols == 2

\* least number of rows of an emitted table
MinRows == 2

\* a bug: any non-empty candidate is emitted
CloseTableAnyRows(st) ==
    [current_table |-> <<>>,
     potential_tables |->
        IF st.current_table # <<>>
        THEN Append(st.potential_tables, st.current_table)
        ELSE st.potential_tables]

\* the close of the current candidate: emitted when long enough, then cleared
CloseTable(st) ==
    [current_table |-> <<>>,
     potential_tables |->
        IF Len(st.current_table) >= MinRows
        THEN Append(st.potential_tables, st.current_table)
        ELSE st.potential_tables]

\* a non-blank, trimmed line
DetectNonBlank(st, line) ==
    IF LooksTabular(line)
    THEN IF Len(RowCells(line)) >= MinCols
         THEN [st EXCEPT !.current_table = Append(@, RowCells(line))]
         ELSE CloseTable(st)
    ELSE CloseTable(st)

\* a bug: a blank line ends the current table
DetectLineStepBlankCloses(st, raw) ==
    IF strip(raw) = <<>> THEN CloseTable(st)
    ELSE DetectNonBlank(st, strip(raw))

\* one iteration of the for loop over lines
DetectLineStep(st, raw) ==
    IF strip(raw) = <<>> THEN st
    ELSE DetectNonBlank(st, strip(raw))

\* a bug: the candidate open at the last line is forgotten
DetectFlushForgotten(st) == st.potential_tables

\* a bug: the candidate is added whatever its length, even empty
DetectFlushAlways(st) == Append(st.potential_tables, st.current_table)

\* the statements after the loop: the last table is added if it exists
DetectFlush(st) ==
    IF Len(st.current_table) >= MinRows
    THEN Append(st.potential_tables, st.current_table)
    ELSE st.potential_tables

RECURSIVE DetectFold(_, _, _)
DetectFold(st, ls, i) ==
    IF i > Len(ls) THEN st
    ELSE DetectFold(DetectLineStep(st, ls[i]), ls, i + 1)

detect_table_patterns_in_text(t) ==
    DetectFlush(DetectFold([current_table |-> <<>>, potential_tables |-> <<>>],
                           split(strip(t)), 1))

-----------------------------------------------------------------------------
(* extract_structured_data_from_text *)

\* a header is shorter than this
HeaderMaxLen == 100

\* a paragraph is longer than this
ParagraphMinLen == 50

HeaderPrefixes ==
    { <<"C", "h", "a", "p", "t", "e", "r">>,
      <<"S", "e", "c", "t", "i", "o", "n">>,
      <<"P", "a", "r", "t">> }

\* the character class [\•\-\*\d]
ListGlyphs == {BULLET, "-", "*"} \cup Digits

\* the character class [\d,]
AmountChars == Digits \cup {","}

EmptyBuckets ==
    [headers |-> <<>>, lists |-> <<>>, paragraphs |-> <<>>,
     financial_data |-> <<>>]

\* s.isupper(): no lower-case character and at least one upper-case one
isupper(s) ==
    LET lower == {i \in 1..Len(s) : s[i] \in LowerLetters}
        upper == {i \in 1..Len(s) : s[i] \in UpperLetters}
    IN  lower = {} /\ upper # {}

\* s.startswith(p)
startswith(s, p) == Len(s) >= Len(p) /\ SubSeq(s, 1, Len(p)) = p

\* a bug: a line of exactly HeaderMaxLen characters is still a header
IsHeaderInclusive(line) ==
    Len(line) <= HeaderMaxLen
        /\ (isupper(line) \/ \E p \in HeaderPrefixes : startswith(line, p))

\* line 176
IsHeader(line) ==
    Len(line) < HeaderMaxLen
        /\ (isupper(line) \/ \E p \in HeaderPrefixes : startswith(line, p))

\* the rest of ^[\•\-\*\d]+\.?\s once a first glyph is matched: more glyphs,
\* then an optional period, then one whitespace character
RECURSIVE list_match_from(_, _)
list_match_from(s, i) ==
    IF i > Len(s) THEN FALSE
    ELSE IF s[i] \in ListGlyphs THEN list_match_from(s, i + 1)
    ELSE IF s[i] = "." THEN i < Len(s) /\ s[i + 1] \in Whitespace
    ELSE s[i] \in Whitespace

\* a bug: the pattern ^([\•\-\*]|\d+)\.?\s, one bullet glyph or digits only
IsListItemOneGlyph(line) ==
    /\ Len(line) >= 1
    /\ \/ line[1] \in {BULLET, "-", "*"}
          /\ Len(line) >= 2
          /\ IF line[2] = "." THEN Len(line) >= 3 /\ line[3] \in Whitespace
             ELSE line[2] \in Whitespace
       \/ \E k \in 1..Len(line) :
             /\ \A i \in 1..k : line[i] \in Digits
             /\ k < Len(line)
             /\ IF line[k + 1] = "."
                THEN k + 1 < Len(line) /\ line[k + 2] \in Whitespace
                ELSE line[k + 1] \in Whitespace

\* line 180: re.match(r'^[\•\-\*\d]+\.?\s', line)
IsListItem(line) ==
    Len(line) >= 1 /\ line[1] \in ListGlyphs /\ list_match_from(line, 2)

\* \$[\d,]+\.?\d* matches at position i; what follows [\d,]+ may be empty
AmountAt(s, i) ==
    s[i] = "$" /\ i < Len(s) /\ s[i + 1] \in AmountChars

\* the characters s[i..i+n-1] exist and are digits
DigitsAt(s, i, n) ==
    i + n - 1 <= Len(s) /\ \A k \in i..(i + n - 1) : s[k] \in Digits

\* the character s[i] exists and is a slash
SlashAt(s, i) == i <= Len(s) /\ s[i] = "/"

\* \d{1,2}/\d{1,2}/\d{2,4} matches at position i
DateAt(s, i) ==
    \E a \in 1..2 : \E b \in 1..2 : \E c \in 2..4 :
        /\ DigitsAt(s, i, a)
        /\ SlashAt(s, i + a)
        /\ DigitsAt(s, i + a + 1, b)
        /\ SlashAt(s, i + a + b + 1)
        /\ DigitsAt(s, i + a + b + 2, c)

\* a bug: the pattern \$\d[\d,]*\.?\d*, a digit right after the dollar sign
IsFinancialDigitFirst(line) ==
    \E i \in 1..Len(line) :
        \/ line[i] = "$" /\ i < Len(line) /\ line[i + 1] \in Digits
        \/ DateAt(line, i)

\* line 184: re.search(r'\$[\d,]+\.?\d*|\d{1,2}/\d{1,2}/\d{2,4}', line)
IsFinancial(line) ==
    \E i \in 1..Len(line) : AmountAt(line, i) \/ DateAt(line, i)

AddTo(sd, bucket, line) == [sd EXCEPT ![bucket] = Append(@, line)]

\* a bug: the list rule is an `if`, not an `elif`
ExtractNonBlankListIf(sd, line) ==
    LET h == IF IsHeader(line) THEN AddTo(sd, "headers", line) ELSE sd
    IN  IF IsListItem(line) THEN AddTo(h, "lists", line)
        ELSE IF IsFinancial(line) THEN AddTo(h, "financial_data", line)
        ELSE IF Len(line) > ParagraphMinLen THEN AddTo(h, "paragraphs", line)
        ELSE h

\* a bug: the financial rule is tried before the header and list rules
ExtractNonBlankFinancialFirst(sd, line) ==
    IF IsFinancial(line) THEN AddTo(sd, "financial_data", line)
    ELSE IF IsHeader(line) THEN AddTo(sd, "headers", line)
    ELSE IF IsListItem(line) THEN AddTo(sd, "lists", line)
    ELSE IF Len(line) > ParagraphMinLen THEN AddTo(sd, "paragraphs", line)
    ELSE sd

\* lines 175-189: the rule chain for a non-blank, trimmed line
ExtractNonBlank(sd, line) ==
    IF IsHeader(line) THEN AddTo(sd, "headers", line)
    ELSE IF IsListItem(line) THEN AddTo(sd, "lists", line)
    ELSE IF IsFinancial(line) THEN AddTo(sd, "financial_data", line)
    ELSE IF Len(line) > ParagraphMinLen THEN AddTo(sd, "paragraphs", line)
    ELSE sd

\* one iteration of the for loop over lines
ExtractLineStep(sd, raw) ==
    IF strip(raw) = <<>> THEN sd ELSE ExtractNonBlank(sd, strip(raw))

RECURSIVE ExtractFold(_, _, _)
ExtractFold(sd, ls, i) ==
    IF i > Len(ls) THEN sd
    ELSE ExtractFold(ExtractLineStep(sd, ls[i]), ls, i + 1)

extract_structured_data_from_text(t) ==
    ExtractFold(EmptyBuckets, split(strip(t)), 1)

-----------------------------------------------------------------------------
(* Sets of inputs and the idle state of the document pipeline. *)

SeqsUpTo(A, n) == UNION {[1..k -> A] : k \in 0..n}

RECURSIVE Join(_)
Join(ls) ==
    IF Len(ls) = 0 THEN <<>>
    ELSE IF Len(ls) = 1 THEN ls[1]
    ELSE ls[1] \o <<"\n">> \o Join(Tail(ls))

EmptyModel ==
    [tabula_tables |-> <<>>, camelot_tables |-> <<>>, ocr_tables |-> <<>>,
     headers |-> <<>>, lists |-> <<>>, paragraphs |-> <<>>,
     financial_data |-> <<>>]

DocIdle ==
    /\ images = <<>>
    /\ page_num = 0
    /\ ocr_tables = <<>>
    /\ structured_text_data = EmptyBuckets
    /\ all_data = EmptyModel
    /\ ppc = "idle"
    /\ stdout = <<>>


\* no function of the text engine is being run
FnIdle ==
    /\ text = <<>>
    /\ lines = <<>>
    /\ idx = 0
    /\ current_table = <<>>
    /\ potential_tables = <<>>
    /\ structured_data = EmptyBuckets
    /\ pc = "idle"

\* no workbook is being written
XlIdle ==
    /\ all_tables = <<>>
    /\ ws_main = <<>>
    /\ current_row = 0
    /\ ws_summary = <<>>
    /\ xpc = "idle"

\* a value that is no string, written as a one-token sequence no text can be
None == <<"\\none">>

\* A function a call goes to, as far as a call can tell: the keywords it
\* takes, and whether it is the library's or a stand-in with a fixed answer.
\* pdf2image.convert_from_path and pytesseract.image_to_string:
Pdf2Image ==
    [stub |-> FALSE,
     keywords |-> {"dpi", "output_folder", "fmt", "poppler_path"}]

Pytesseract == [stub |-> FALSE, keywords |-> {"lang", "config"}]

\* the stand-ins of tests/test_process_pdf.py
fake_convert_from_path ==
    [stub |-> TRUE, keywords |-> {"fmt", "output_folder"}]

fake_image_to_string == [stub |-> TRUE, keywords |-> {}]

\* a call with keyword arguments the function does not take raises TypeError
Accepts(f, kwargs) == kwargs \subseteq f.keywords

\* the modules os.path can be
PathModules == {"posixpath", "ntpath"}

\* the names are bound as at import; os.path is used by process_pdf and
\* upload_file alone
Imported ==
    /\ convert_from_path = Pdf2Image
    /\ image_to_string = Pytesseract
    /\ os_path = "posixpath"

\* process_pdf is not being run
ProcIdle ==
    /\ path = <<>>
    /\ excel_name = None
    /\ output_folder = {}
    /\ result = None
    /\ qpc = "idle"

\* a request with nothing in it, and a response with nothing in it
NoRequest == [method |-> "", url |-> <<>>, files |-> {}]

NoResponse == [status |-> 0, location |-> <<>>, template |-> ""]

\* upload_file is not serving a request
WebIdle ==
    /\ request = NoRequest
    /\ upload_folder = {}
    /\ flashed = <<>>
    /\ response = NoResponse
    /\ upc = "idle"

AppIdle == XlIdle /\ Imported /\ ProcIdle /\ WebIdle

-----------------------------------------------------------------------------
(* process_pdf_to_structured_data *)

\* what the OCR engine returns for the page images: text as read
PageTexts ==
    {
      <<>>,
      <<" ", "\n", "\t", "\\u00a0", "\n", "\\u000b">>,
      <<"M", "o", "n", "t", "h", " ", " ", "R", "e", "v", "e", "n", "u",
        "e", "\n", "J", "a", "n", " ", " ", "1", "2", "5", "\n", "F", "e",
        "b", " ", " ", "1", "3", "8">>,
      <<"S", "U", "M", "M", "A", "R", "Y", "\n", "x", " ", " ", "1", "\n", "y",
        "\t", "2", "\n", "-", " ", "i", "t", "e",
        "m", "\n", "\n", "o", "n", " ", "1", "/", "2", "/", "2", "4", "\n",
        "R", "e", "v", "e", "n", "u", "e", " ", "i", "n", "c", "r", "e",
        "a", "s", "e", "d", " ", "s", "u", "b", "s", "t", "a", "n", "t",
        "i", "a", "l", "l", "y", " ", "a", "c", "r", "o", "s", "s", " ",
        "a", "l", "l", " ", "r", "e", "g", "i", "o", "n", "s", " ", "x">>,
      <<"C", "O", "N", "C", "L", "U", "S", "I", "O", "N", "\n", "*", " ",
        "a", " ", " ", "b", "\n", "*", " ", "c", " ", " ", "d", "\n">>,
      <<"0", "1", "/", "0", "1", "/", "2", "0", "2", "0", " ", "T", "e",
        "s", "t", " ", "1", ".", "0", "0", " ", "2", ".", "0", "0", " ",
        "3", ".", "0", "0">>
    }

\* a page image, as far as the code can tell: whether pytesseract raises on
\* it, and the text it returns otherwise
PageImages ==
    {[raises |-> FALSE, read |-> t] : t \in PageTexts}
        \cup {[raises |-> TRUE, read |-> <<>>]}

\* what a native table extractor does on the file: the tables it returns
\* (each a sequence of rows of cells, a cell a text), or an exception
NativeOutcomes ==
    { [raises |-> FALSE, tables |-> <<>>],
      [raises |-> FALSE,
       tables |-> << << << <<"Q">>, <<"1">> >>, << <<"R">>, <<"2">> >> >> >>],
      [raises |-> TRUE, tables |-> <<>>] }

\* lines 61-70
extract_tables_with_tabula(o) == IF o.raises THEN <<>> ELSE o.tables

\* lines 73-82
extract_tables_with_camelot(o) == IF o.raises THEN <<>> ELSE o.tables

\* lines 85-94
extract_text_with_ocr(img) == IF img.raises THEN <<>> ELSE strip(img.read)

\* what the test's fake_image_to_string returns
FakeText ==
    <<"0", "1", "/", "0", "1", "/", "2", "0", "2", "0", " ", "T", "e",
      "s", "t", " ", "1", ".", "0", "0", " ", "2", ".", "0", "0", " ",
      "3", ".", "0", "0">>

\* the image the test's fake_convert_from_path returns, white all over
WhiteImage == [raises |-> FALSE, read |-> <<>>]

\* line 90: what the call image_to_string(image, config=config) does, given
\* the function the name is bound to
ImageToString(f, img) ==
    IF ~Accepts(f, {"config"}) THEN [raises |-> TRUE, read |-> <<>>]
    ELSE IF f.stub THEN [raises |-> FALSE, read |-> FakeText]
    ELSE img

\* lines 322-327: the page images the call convert_from_path(pdf_path,
\* fmt=, dpi=, poppler_path=) can return, given the function bound
Rendered(f) ==
    IF f.stub THEN { <<WhiteImage>> } ELSE SeqsUpTo(PageImages, MaxPages)

\* lines 322-327: whether the call can raise
RenderRaises(f) == ~Accepts(f, {"fmt", "dpi", "poppler_path"}) \/ ~f.stub

\* lines 68-69, 80-81, 92-93, 367-368: lines printed when a step fails
TabulaFailed == "[WARNING] Tabula extraction failed"
CamelotFailed == "[WARNING] Camelot extraction failed"
OcrFailed == "[WARNING] OCR extraction failed"
ProcessingFailed == "[ERROR] PDF processing failed"

\* print, when the step has failed
Warn(out, failed, line) == IF failed THEN Append(out, line) ELSE out

\* a bug: the page is put in front of what was gathered
ExtendFront(acc, more) == more \o acc

\* list.extend
Extend(acc, more) == acc \o more

\* lines 351-352: every bucket of the page is appended to the document's
MergeBuckets(acc, page) ==
    [b \in DOMAIN acc |-> Extend(acc[b], page[b])]

InitDoc ==
    /\ text = <<>>
    /\ lines = <<>>
    /\ idx = 0
    /\ current_table = <<>>
    /\ potential_tables = <<>>
    /\ structured_data = EmptyBuckets
    /\ pc = "idle"
    /\ images = <<>>
    /\ page_num = 0
    /\ ocr_tables = <<>>
    /\ structured_text_data = EmptyBuckets
    /\ all_data = EmptyModel
    /\ ppc = "tabula"
    /\ stdout = <<>>
    /\ AppIdle

\* lines 313-314
ExtractTablesWithTabula ==
    /\ ppc = "tabula"
    /\ \E o \in NativeOutcomes :
          /\ all_data' = [all_data EXCEPT
                             !.tabula_tables = extract_tables_with_tabula(o)]
          /\ stdout' = Warn(stdout, o.raises, TabulaFailed)
    /\ ppc' = "camelot"
    /\ UNCHANGED <<appVars, fnVars, images, page_num, ocr_tables,
                   structured_text_data>>

\* lines 317-318
ExtractTablesWithCamelot ==
    /\ ppc = "camelot"
    /\ \E o \in NativeOutcomes :
          /\ all_data' = [all_data EXCEPT
                             !.camelot_tables = extract_tables_with_camelot(o)]
          /\ stdout' = Warn(stdout, o.raises, CamelotFailed)
    /\ ppc' = "convert"
    /\ UNCHANGED <<appVars, fnVars, images, page_num, ocr_tables,
                   structured_text_data>>

\* lines 322-335: the pages are rendered and the accumulators are created
ConvertFromPath ==
    /\ ppc = "convert"
    /\ Accepts(convert_from_path, {"fmt", "dpi", "poppler_path"})
    /\ images' \in Rendered(convert_from_path)
    /\ ocr_tables' = <<>>
    /\ structured_text_data' = EmptyBuckets
    /\ page_num' = 0
    /\ ppc' = "loop"
    /\ UNCHANGED <<appVars, fnVars, all_data, stdout>>

\* lines 322-327 and 367-369: the renderer raises and the exception leaves
\* the function
ConvertFromPathRaises ==
    /\ ppc = "convert"
    /\ RenderRaises(convert_from_path)
    /\ stdout' = Append(stdout, ProcessingFailed)
    /\ ppc' = "raised"
    /\ UNCHANGED <<appVars, fnVars, images, page_num, ocr_tables,
                   structured_text_data, all_data>>

\* a bug: extract_text_with_ocr lets the exception of the OCR engine through
ProcessPageOcrUncaught ==
    /\ ppc = "loop"
    /\ page_num < Len(images)
    /\ LET read == ImageToString(image_to_string, images[page_num + 1])
           full_text == extract_text_with_ocr(read)
       IN  IF read.raises
           THEN /\ stdout' = Append(stdout, ProcessingFailed)
                /\ ppc' = "raised"
                /\ UNCHANGED <<ocr_tables, structured_text_data, page_num>>
           ELSE /\ ocr_tables' =
                      Extend(ocr_tables,
                             detect_table_patterns_in_text(full_text))
                /\ structured_text_data' =
                      MergeBuckets(structured_text_data,
                          extract_structured_data_from_text(full_text))
                /\ page_num' = page_num + 1
                /\ UNCHANGED <<stdout, ppc>>
    /\ UNCHANGED <<appVars, fnVars, images, all_data>>

\* lines 337-352: one page
ProcessPage ==
    /\ ppc = "loop"
    /\ page_num < Len(images)
    /\ LET read == ImageToString(image_to_string, images[page_num + 1])
           full_text == extract_text_with_ocr(read)
           page_tables == detect_table_patterns_in_text(full_text)
           page_structured_data ==
               extract_structured_data_from_text(full_text)
       IN  /\ ocr_tables' = Extend(ocr_tables, page_tables)
           /\ structured_text_data' =
                 MergeBuckets(structured_text_data, page_structured_data)
           /\ stdout' = Warn(stdout, read.raises, OcrFailed)
    /\ page_num' = page_num + 1
    /\ UNCHANGED <<appVars, fnVars, images, all_data, ppc>>

\* lines 354-365
ReturnAllData ==
    /\ ppc = "loop"
    /\ page_num = Len(images)
    /\ all_data' = [all_data EXCEPT
                       !.ocr_tables = ocr_tables,
                       !.headers = structured_text_data.headers,
                       !.lists = structured_text_data.lists,
                       !.paragraphs = structured_text_data.paragraphs,
                       !.financial_data =
                           structured_text_data.financial_data]
    /\ ppc' = "done"
    /\ UNCHANGED <<appVars, fnVars, images, page_num, ocr_tables,
                   structured_text_data, stdout>>

Next ==
    \/ ExtractTablesWithTabula
    \/ ExtractTablesWithCamelot
    \/ ConvertFromPath
    \/ ConvertFromPathRaises
    \/ ProcessPage
    \/ ReturnAllData

Spec == InitDoc /\ [][Next]_vars

\* Steps of the function as its position and page counter show them: the
\* steps of Next that satisfy AdvancePage are the steps of ProcessPage, and
\* those that satisfy Advance are the steps of the other five actions.
AdvancePage ==
    /\ ppc = "loop"
    /\ page_num < Len(images)
    /\ page_num' = page_num + 1

Advance ==
    \/ ppc = "tabula" /\ ppc' = "camelot"
    \/ ppc = "camelot" /\ ppc' = "convert"
    \/ ppc = "convert" /\ ppc' \in {"loop", "raised"}
    \/ ppc = "loop" /\ page_num = Len(images) /\ ppc' = "done"

\* the function is run to its end: a call that has been entered takes its
\* next step, until it returns or raises
FairSpec == Spec /\ WF_page_num(AdvancePage) /\ WF_ppc(Advance)

-----------------------------------------------------------------------------
(* Inputs of the detector. *)

DetectAlphabet == {"a", " ", "\t", "\n"}

DetectLines ==
    { <<>>,
      <<" ", "\t">>,
      <<"a", "\t", "b">>,
      <<"c", " ", " ", "d", " ", "e">>,
      <<"x", " ", "y">> }

\* texts of whitespace only, within and outside ASCII
BlankTexts ==
    SeqsUpTo({" ", "\t", "\n", "\\u00a0"}, MaxBlankLen)

DetectTexts ==
    SeqsUpTo(DetectAlphabet, MaxTextLen)
    \cup BlankTexts
    \cup {Join(ls) : ls \in SeqsUpTo(DetectLines, MaxLines)}
    \* whitespace outside ASCII: a no-break space and an em space, a line
    \* tabulation, an ideographic space, a file separator and a next line
    \* character; and a zero width space, which is no whitespace
    \cup { <<"a", "\\u00a0", "\\u2003", "b", "\n", "c", "\\u000b", "\\u000b", "d">>,
            <<"\\u3000", "a", "\t", "b", "\\u00a0", "\n", "\\u001c", "c", "\t", "d",
              "\\u0085">>,
            <<"a", "\\u00a0", "b", "\n", "c", "\\u2003", "d">>,
            <<"a", "\\u200b", "\\u200b", "b", "\n", "c", " ", " ", "d">>,
            <<"\\u2028", "\\u3000", "\\u00a0">> }

InitDetect ==
    /\ text \in DetectTexts
    /\ lines = <<>>
    /\ idx = 0
    /\ current_table = <<>>
    /\ potential_tables = <<>>
    /\ structured_data = EmptyBuckets
    /\ pc = "detect_entry"
    /\ DocIdle
    /\ AppIdle

\* lines 120-122
DetectEnter ==
    /\ pc = "detect_entry"
    /\ lines' = split(strip(text))
    /\ idx' = 0
    /\ potential_tables' = <<>>
    /\ current_table' = <<>>
    /\ pc' = "detect_loop"
    /\ UNCHANGED <<appVars, text, structured_data, docVars>>

\* lines 124-147: one iteration
DetectLine ==
    /\ pc = "detect_loop"
    /\ idx < Len(lines)
    /\ LET st == DetectLineStep([current_table |-> current_table,
                                 potential_tables |-> potential_tables],
                                lines[idx + 1])
       IN  /\ current_table' = st.current_table
           /\ potential_tables' = st.potential_tables
    /\ idx' = idx + 1
    /\ UNCHANGED <<appVars, text, lines, structured_data, pc, docVars>>

\* lines 149-153
DetectReturn ==
    /\ pc = "detect_loop"
    /\ idx = Len(lines)
    /\ potential_tables' =
          DetectFlush([current_table |-> current_table,
                       potential_tables |-> potential_tables])
    /\ pc' = "detect_done"
    /\ UNCHANGED <<appVars, text, lines, idx, current_table, structured_data, docVars>>

NextDetect == DetectEnter \/ DetectLine \/ DetectReturn

SpecDetect == InitDetect /\ [][NextDetect]_vars

-----------------------------------------------------------------------------
(* Inputs of the classifier. *)

\* n copies of the character c
Fill(c, n) == [k \in 1..n |-> c]

HeaderAlphabet == {"A", "a", "1", "-", " "}

ListAlphabet == {"-", "*", "1", ".", " ", "a"}

AmountAlphabet == {"$", ",", "1", ".", "a"}

DateAlphabet == {"1", "/", "a"}

SampleLines ==
    {
        <<"A", "L", "L", " ", "C", "A", "P", "S", " ", "H", "E", "A", "D",
          "E", "R">>,
        <<BULLET, " ", "C", "u", "s", "t", "o", "m", "e", "r", " ", "s",
          "a", "t", "i", "s", "f", "a", "c", "t", "i", "o", "n", " ", "r",
          "a", "t", "e", ":", " ", "9", "4", ".", "2", "%">>,
        <<"R", "e", "v", "e", "n", "u", "e", " ", "i", "n", "c", "r", "e",
          "a", "s", "e", "d", " ", "s", "u", "b", "s", "t", "a", "n", "t",
          "i", "a", "l", "l", "y", " ", "a", "c", "r", "o", "s", "s", " ",
          "a", "l", "l", " ", "r", "e", "g", "i", "o", "n", "s", " ", "t",
          "h", "i", "s", " ", "q", "u", "a", "r", "t", "e", "r", " ", "d",
          "u", "e", " ", "t", "o", " ", "s", "t", "r", "o", "n", "g", " ",
          "d", "e", "m", "a", "n", "d">>,
        <<"0", "1", "/", "0", "1", "/", "2", "0", "2", "0", " ", "T", "e",
          "s", "t", " ", "1", ".", "0", "0", " ", "2", ".", "0", "0", " ",
          "3", ".", "0", "0">>,
        <<"E", "x", "e", "c", "u", "t", "i", "v", "e", " ", "S", "u", "m",
          "m", "a", "r", "y">>,
        <<"D", "U", "E", " ", "1", "/", "2", "/", "2", "4">>,
        <<"T", "O", "T", "A", "L", " ", "$", "5">>,
        <<"1", ".", " ", "P", "A", "I", "D", " ", "$", "1", ",", "2", "5",
          "0", ".", "0", "0">>,
        <<"1", ".", " ", "p", "a", "i", "d", " ", "1", "2", "/", "3", "1",
          "/", "2", "0", "2", "4">>,
        <<"P", "a", "r", "t", " ", "1">>,
        <<"P", "a", "r", "t", "i", "a", "l">>,
        <<"p", "a", "r", "t">>,
        <<"C", "h", "a", "p", "t", "e", "r">>,
        <<"C", "h", "a", "p", "t", "e">>,
        <<"S", "e", "c", "t", "i", "o", "n", " ", "2", " ", "$", "5">>,
        <<"1", "2", "3">>,
        <<"-", "-", "-">>,
        <<"1", "2", ".", "5", "%">>,
        <<"$", ",">>,
        <<"a", " ", "$", ",", "5">>,
        <<"$", " ", "5">>,
        <<BULLET, " ", "x">>,
        <<BULLET, "x">>,
        <<BULLET, ".", " ", "x">>,
        <<"-", "*", "3", " ", "x">>,
        <<"-", "-", " ", "x">>,
        <<"1", "-", "2", ".", " ", "x">>,
        <<"1", ".", ".", " ", "x">>,
        <<"-", " ", "A">>,
        <<"a", "\r">>,
        <<"p", "a", "i", "d", " ", "$", "4", "0", ",", "0", "0", "0", ".",
          "5", "0", " ", "n", "e", "t">>,
        <<"o", "n", " ", "1", "2", "3", "/", "4", "/", "5", "6", "7", "8",
          "9">>,
        <<"o", "n", " ", "1", "/", "1", "2", "3", "/", "1", "1">>,
        \* letters, digits and whitespace outside ASCII
        <<"\\u00c9", "T", "\\u00c9">>,
        <<"\\u00c9", "t", "\\u00e9">>,
        <<"\\u03a3", " ", "1">>,
        <<"\\u2167">>,
        <<"\\u01c5", "A">>,
        <<"A", "\\u00df">>,
        <<"\\u4e2d", "\\u6587">>,
        <<"\\u0663", ".", " ", "x">>,
        <<"\\uff13", "\\u00a0", "y">>,
        <<"-", "\\u000b", "k">>,
        <<"\\u00b2", ".", " ", "z">>,
        <<"\\u00a0", "-", " ", "k", "\\u2003">>,
        <<"$", "\\u0663">>,
        <<"$", "\\u00b2">>,
        <<"\\u0661", "/", "\\u0662", "/", "\\u0663", "\\u0664">>,
        <<"o", "n", " ", "\\U0001d7cf", "/", "2", "/", "2", "4">>,
        <<"1", "/", "\\u00b2", "/", "2", "4">>
    }

\* lines on either side of the two length thresholds
ThresholdLines ==
    LET lens == {ParagraphMinLen, ParagraphMinLen + 1,
                 HeaderMaxLen - 1, HeaderMaxLen}
        heads == { <<>>, <<"P", "a", "r", "t">>, <<"-", " ">>,
                   <<"$", "5", " ">>, <<"1", ".", " ", "1", "/", "1", "/",
                   "1", "1", " ">> }
    IN  {h \o Fill(c, n - Len(h)) : h \in heads, c \in {"x", "X"}, n \in lens}

\* lines of several rules each, for the texts of more than one line
MixLines ==
    { <<>>,
      <<" ", "\t">>,
      <<"T", "O", "T", "A", "L", " ", "$", "5">>,
      <<"1", ".", " ", "A">>,
      <<"-", " ", "$", "5">>,
      <<"a", " ", "1", "/", "1", "/", "1", "1">>,
      <<"a", "b">>,
      Fill("x", ParagraphMinLen + 1) }

ExtractTexts ==
    SeqsUpTo(HeaderAlphabet, MaxLineLen)
    \cup SeqsUpTo(ListAlphabet, MaxLineLen)
    \cup SeqsUpTo(AmountAlphabet, MaxLineLen)
    \cup SeqsUpTo(DateAlphabet, MaxDateLen)
    \cup BlankTexts
    \cup SampleLines
    \cup ThresholdLines
    \cup {Join(ls) : ls \in SeqsUpTo(MixLines, MaxMixLines)}

InitExtract ==
    /\ text \in ExtractTexts
    /\ lines = <<>>
    /\ idx = 0
    /\ current_table = <<>>
    /\ potential_tables = <<>>
    /\ structured_data = EmptyBuckets
    /\ pc = "extract_entry"
    /\ DocIdle
    /\ AppIdle

\* lines 161-168
ExtractEnter ==
    /\ pc = "extract_entry"
    /\ structured_data' = EmptyBuckets
    /\ lines' = split(strip(text))
    /\ idx' = 0
    /\ pc' = "extract_loop"
    /\ UNCHANGED <<appVars, text, current_table, potential_tables, docVars>>

\* lines 170-189: one iteration
ExtractLine ==
    /\ pc = "extract_loop"
    /\ idx < Len(lines)
    /\ structured_data' = ExtractLineStep(structured_data, lines[idx + 1])
    /\ idx' = idx + 1
    /\ UNCHANGED <<appVars, text, lines, current_table, potential_tables, pc, docVars>>

\* line 191
ExtractReturn ==
    /\ pc = "extract_loop"
    /\ idx = Len(lines)
    /\ pc' = "extract_done"
    /\ UNCHANGED <<appVars, text, lines, idx, current_table, potential_tables,
                   structured_data, docVars>>

NextExtract == ExtractEnter \/ ExtractLine \/ ExtractReturn

SpecExtract == InitExtract /\ [][NextExtract]_vars

-----------------------------------------------------------------------------
(* create_consolidated_excel *)

\* A native table is a DataFrame: a sequence of rows of equal length, each a
\* sequence of cells.  An OCR table is a list of lists of strings.  A cell is
\* a string, or NaN or None, which are no strings; NaN is written as a
\* one-token sequence no text can be.
NaN == <<"\\nan">>

\* pd.isna
isna(cell) == cell \in {NaN, None}

\* a reading of "empty" under which a table of missing cells is empty too
EmptyOrAllMissing(table) ==
    \A i \in 1..Len(table) : \A j \in 1..Len(table[i]) : isna(table[i][j])

\* DataFrame.empty: an axis of the frame has length 0
empty(table) == Len(table) = 0 \/ Len(table[1]) = 0

\* the longest row of a list of lists
Width(table) ==
    IF Len(table) = 0 THEN 0
    ELSE CHOOSE w \in {Len(table[i]) : i \in 1..Len(table)} :
             \A i \in 1..Len(table) : Len(table[i]) <= w

\* pd.DataFrame(list of lists): short rows are filled with None
DataFrame(table) ==
    LET w == Width(table)
        fill(row) == [j \in 1..(w - Len(row)) |-> None]
    IN  [i \in 1..Len(table) |-> table[i] \o fill(table[i])]

\* lines 208-210, 213-215: the frames of one extractor that are kept, tagged
RECURSIVE TagFrames(_, _)
TagFrames(name, tables) ==
    IF Len(tables) = 0 THEN <<>>
    ELSE (IF ~empty(tables[1]) THEN << <<name, tables[1]>> >> ELSE <<>>)
             \o TagFrames(name, Tail(tables))

\* lines 218-220: the OCR tables that are kept, as frames, tagged
RECURSIVE TagLists(_, _)
TagLists(name, tables) ==
    IF Len(tables) = 0 THEN <<>>
    ELSE (IF Len(tables[1]) > 0
            THEN << <<name, DataFrame(tables[1])>> >> ELSE <<>>)
             \o TagLists(name, Tail(tables))

\* lines 205-220
Consolidate(model) ==
    TagFrames("Tabula Table", model.tabula_tables)
        \o TagFrames("Camelot Table", model.camelot_tables)
        \o TagLists("OCR Table", model.ocr_tables)

\* lines 229-230: ws_main.cell(row, column, value) for every cell of a row
WriteCells(ws, r, row) ==
    ws \o [j \in 1..Len(row) |-> [row |-> r, column |-> j, value |-> row[j]]]

\* a bug: a row of missing cells still takes a row number
WriteRowAlwaysAdvance(sheet, row) ==
    IF \A j \in 1..Len(row) : isna(row[j])
    THEN [sheet EXCEPT !.current_row = @ + 1]
    ELSE [ws_main |-> WriteCells(sheet.ws_main, sheet.current_row, row),
          current_row |-> sheet.current_row + 1]

\* lines 228-231: one row of a table
WriteRow(sheet, row) ==
    IF \A j \in 1..Len(row) : isna(row[j])
    THEN sheet
    ELSE [ws_main |-> WriteCells(sheet.ws_main, sheet.current_row, row),
          current_row |-> sheet.current_row + 1]

\* lines 226-231: the rows of one table, from row i on
RECURSIVE WriteRowsFrom(_, _, _)
WriteRowsFrom(sheet, table, i) ==
    IF i > Len(table) THEN sheet
    ELSE WriteRowsFrom(WriteRow(sheet, table[i]), table, i + 1)

\* lines 223-231: all tables, from table k on
RECURSIVE WriteTablesFrom(_, _, _)
WriteTablesFrom(sheet, tables, k) ==
    IF k > Len(tables) THEN sheet
    ELSE WriteTablesFrom(WriteRowsFrom(sheet, tables[k][2], 1), tables, k + 1)

\* lines 236-238 (243-245, 250-252, 257-259): one entry of a bucket
WriteEntry(sheet, entry) ==
    IF strip(entry) = <<>>
    THEN sheet
    ELSE [ws_main |-> WriteCells(sheet.ws_main, sheet.current_row, <<entry>>),
          current_row |-> sheet.current_row + 1]

\* lines 234-238 (241-245, 248-252, 255-259): one bucket, from entry i on
RECURSIVE WriteBucketFrom(_, _, _)
WriteBucketFrom(sheet, entries, i) ==
    IF i > Len(entries) THEN sheet
    ELSE WriteBucketFrom(WriteEntry(sheet, entries[i]), entries, i + 1)

\* len([h for h in entries if h.strip()])
RECURSIVE CountNonBlank(_)
CountNonBlank(entries) ==
    IF Len(entries) = 0 THEN 0
    ELSE (IF strip(entries[1]) = <<>> THEN 0 ELSE 1)
             + CountNonBlank(Tail(entries))

\* lines 273-287: the count rows of the Summary sheet
Summary(tables, model) ==
    << <<"Total Tables", Len(tables)>>,
       <<"Headers", CountNonBlank(model.headers)>>,
       <<"Lists", CountNonBlank(model.lists)>>,
       <<"Financial Data", CountNonBlank(model.financial_data)>> >>

\* lines 194-294: the workbook as the function returns it
create_consolidated_excel(model) ==
    LET tables == Consolidate(model)
        s0 == [ws_main |-> <<>>, current_row |-> 1]
        s1 == WriteTablesFrom(s0, tables, 1)
        s2 == WriteBucketFrom(s1, model.headers, 1)
        s3 == WriteBucketFrom(s2, model.financial_data, 1)
        s4 == WriteBucketFrom(s3, model.lists, 1)
        s5 == WriteBucketFrom(s4, model.paragraphs, 1)
    IN  [Data |-> s5.ws_main, Summary |-> Summary(tables, model)]

\* frames a native extractor can hand over: no row; rows of no column; one
\* row of missing cells; rows of missing cells around rows with a value;
\* blank strings only
Frames ==
    { <<>>,
      << <<>>, <<>> >>,
      << <<NaN, NaN>> >>,
      << <<NaN>>, << <<"a">> >>, <<NaN>> >>,
      << << <<>>, <<" ">> >>, << <<"b">>, NaN >> >> }

\* OCR tables: none, an empty list, and lists of rows of unequal length
ListTables ==
    { <<>>,
      << <<>> >>,
      << << << <<"x">>, <<"1">> >>, << <<"y">>, <<"2">>, <<"3">> >> >> >>,
      << <<>>, << << <<"u">>, <<"v">>, <<"w">> >>, << <<"s">>, <<"t">> >> >> >> }

\* bucket contents: blank entries among entries with text
HeaderLists ==
    { <<>>,
      << <<"H">> >>,
      << <<>>, <<" ">> >>,
      << <<"G">>, <<" ", "\t">>, <<"H">>, <<"G">> >> }

\* the models the writer is given
ExcelModels ==
    [tabula_tables : SeqsUpTo(Frames, MaxTables),
     camelot_tables : { <<>>, << << <<NaN>> >>, << << <<"c">> >> >> >> },
     ocr_tables : ListTables,
     headers : HeaderLists,
     lists : { <<>>, << <<"-", " ", "i">>, <<>> >> },
     paragraphs : { <<>>, << <<"p">> >> },
     financial_data : { <<>>, << <<" ">>, <<"$", "5">> >> }]

InitExcel ==
    /\ FnIdle
    /\ images = <<>>
    /\ page_num = 0
    /\ ocr_tables = <<>>
    /\ structured_text_data = EmptyBuckets
    /\ all_data \in ExcelModels
    /\ ppc = "idle"
    /\ stdout = <<>>
    /\ Imported
    /\ ProcIdle
    /\ WebIdle
    /\ all_tables = <<>>
    /\ ws_main = <<>>
    /\ current_row = 0
    /\ ws_summary = <<>>
    /\ xpc = "entry"

\* lines 196-220
ConsolidateTables ==
    /\ xpc = "entry"
    /\ ws_main' = <<>>
    /\ current_row' = 1
    /\ all_tables' = Consolidate(all_data)
    /\ xpc' = "tables"
    /\ UNCHANGED <<fnVars, docVars, bindings, procVars, webVars, ws_summary>>

\* lines 223-231
WriteTables ==
    /\ xpc = "tables"
    /\ LET sheet == WriteTablesFrom([ws_main |-> ws_main,
                                     current_row |-> current_row],
                                    all_tables, 1)
       IN  /\ ws_main' = sheet.ws_main
           /\ current_row' = sheet.current_row
    /\ xpc' = "headers"
    /\ UNCHANGED <<fnVars, docVars, bindings, procVars, webVars, all_tables, ws_summary>>

\* lines 234-259: the bucket the writer has come to is written
WriteBucket(at, entries, then) ==
    /\ xpc = at
    /\ LET sheet == WriteBucketFrom([ws_main |-> ws_main,
                                     current_row |-> current_row],
                                    entries, 1)
       IN  /\ ws_main' = sheet.ws_main
           /\ current_row' = sheet.current_row
    /\ xpc' = then
    /\ UNCHANGED <<fnVars, docVars, bindings, procVars, webVars, all_tables, ws_summary>>

\* lines 234-238
WriteHeaders == WriteBucket("headers", all_data.headers, "financial_data")

\* lines 241-245
WriteFinancialData ==
    WriteBucket("financial_data", all_data.financial_data, "lists")

\* lines 248-252
WriteLists == WriteBucket("lists", all_data.lists, "paragraphs")

\* lines 255-259
WriteParagraphs == WriteBucket("paragraphs", all_data.paragraphs, "summary")

\* lines 262-294
WriteSummary ==
    /\ xpc = "summary"
    /\ ws_summary' = Summary(all_tables, all_data)
    /\ xpc' = "done"
    /\ UNCHANGED <<fnVars, docVars, bindings, procVars, webVars, all_tables, ws_main, current_row>>

NextExcel ==
    \/ ConsolidateTables
    \/ WriteTables
    \/ WriteHeaders
    \/ WriteFinancialData
    \/ WriteLists
    \/ WriteParagraphs
    \/ WriteSummary

SpecExcel == InitExcel /\ [][NextExcel]_vars

-----------------------------------------------------------------------------
(* os.path *)

\* str.rfind, counted from 1: the last place in s of a character of the set,
\* or 0
LastIn(s, cs) ==
    IF \E i \in 1..Len(s) : s[i] \in cs
    THEN CHOOSE i \in 1..Len(s) :
             s[i] \in cs /\ \A k \in (i + 1)..Len(s) : s[k] \notin cs
    ELSE 0

\* the first place in s, from place k on, of a character of the set, or 0
FirstIn(s, cs, k) ==
    IF \E i \in k..Len(s) : s[i] \in cs
    THEN CHOOSE i \in k..Len(s) :
             s[i] \in cs /\ \A j \in k..(i - 1) : s[j] \notin cs
    ELSE 0

\* the characters that part the components of a path: on Windows the
\* backslash and the slash
seps(m) == IF m = "ntpath" THEN {"\\", "/"} ELSE {"/"}

\* os.path.splitdrive.  posixpath knows no drive.  For ntpath (CPython 3.11)
\* the drive is a character and a colon, or, of a path that starts with two
\* separators, all up to the second separator after them (after the "?",
\* "UNC" and separator that follow them, in either case of the letters, if
\* they do)
splitdrive(m, p) ==
    LET s == seps(m)
        unc == /\ Len(p) >= 8
               /\ p[3] = "?"
               /\ p[4] \in s
               /\ p[5] \in {"u", "U"}
               /\ p[6] \in {"n", "N"}
               /\ p[7] \in {"c", "C"}
               /\ p[8] \in s
        index == FirstIn(p, s, IF unc THEN 9 ELSE 3)
        index2 == FirstIn(p, s, index + 1)
        n == IF m # "ntpath" \/ Len(p) < 2 THEN 0
             ELSE IF p[1] \in s /\ p[2] \in s
             THEN IF index = 0 \/ index2 = 0 THEN Len(p) ELSE index2 - 1
             ELSE IF p[2] = ":" THEN 2
             ELSE 0
    IN  <<SubSeq(p, 1, n), SubSeq(p, n + 1, Len(p))>>

\* os.path.basename: what follows the last separator, the drive left out
basename(m, p) ==
    LET rest == splitdrive(m, p)[2]
    IN  SubSeq(rest, LastIn(rest, seps(m)) + 1, Len(rest))

\* os.path.splitext: the extension starts at the last dot of the last
\* component, unless only dots come before it in the component
splitext(m, p) ==
    LET sep == LastIn(p, seps(m))
        dot == LastIn(p, {"."})
    IN  IF dot > sep /\ \E k \in (sep + 1)..(dot - 1) : p[k] # "."
        THEN <<SubSeq(p, 1, dot - 1), SubSeq(p, dot, Len(p))>>
        ELSE <<p, <<>> >>

\* os.path.join of two components, the second without a drive
join(m, a, b) ==
    LET d == splitdrive(m, a)
        drive == d[1]
        head == d[2]
        sep == IF m = "ntpath" THEN "\\" ELSE "/"
        joined == IF head # <<>> /\ head[Len(head)] \notin seps(m)
                  THEN head \o <<sep>> \o b
                  ELSE head \o b
    IN  CASE splitdrive(m, b)[1] = <<>> /\ b # <<>> /\ b[1] \in seps(m) ->
                 drive \o b
          [] splitdrive(m, b)[1] = <<>> /\ ~(b # <<>> /\ b[1] \in seps(m)) ->
                 IF /\ joined # <<>>
                    /\ joined[1] \notin seps(m)
                    /\ drive # <<>>
                    /\ drive[Len(drive)] # ":"
                 THEN drive \o <<sep>> \o joined
                 ELSE drive \o joined

-----------------------------------------------------------------------------
(* process_pdf *)

\* line 403
ExcelName(m, p) ==
    splitext(m, basename(m, p))[1]
        \o <<"_", "c", "o", "n", "v", "e", "r", "t", "e", "d", ".", "x",
             "l", "s", "x">>

\* paths process_pdf is called with directly: components parted by a slash,
\* by a backslash, and after a drive
Paths ==
    { <<"t", "/", "s", "a", "m", "p", "l", "e", ".", "p", "d", "f">>,
      <<"u", ".", "d", "\\", "a", ".", "b", ".", "p", "d", "f">>,
      <<"C", ":", ".", "p", "d", "f">> }

\* the functions the two names are bound to when process_pdf is called: the
\* libraries', or the stand-ins the test puts in their place
Bindings ==
    { <<Pdf2Image, Pytesseract>>,
      <<Pdf2Image, fake_image_to_string>>,
      <<fake_convert_from_path, fake_image_to_string>> }

-----------------------------------------------------------------------------
(* upload_file *)

UPLOAD_FOLDER == <<"u", "p", "l", "o", "a", "d", "s">>

ALLOWED_EXTENSIONS ==
    { <<"p", "d", "f">> }

\* s.lower() == w, for a word w of the letters d, f and p: lower() maps no
\* character but the letter and its capital to one of them, and no character
\* to nothing
LowerIs(s, w) ==
    LET capital == [c \in {"d", "f", "p"} |->
                       IF c = "d" THEN "D" ELSE IF c = "f" THEN "F" ELSE "P"]
    IN  /\ Len(s) = Len(w)
        /\ \A i \in 1..Len(s) : s[i] \in {w[i], capital[w[i]]}

\* lines 56-58
allowed_file(filename) ==
    LET dot == LastIn(filename, {"."})
        ext == SubSeq(filename, dot + 1, Len(filename))
    IN  dot > 0 /\ \E w \in ALLOWED_EXTENSIONS : LowerIs(ext, w)

\* the URL of the upload form
FormUrl ==
    <<"h", "t", "t", "p", ":", "/", "/", "l", "o", "c", "a", "l", "h", "o",
      "s", "t", "/">>

\* url_for("download_file", filename=name), for a name of letters, digits,
\* dots, underscores and hyphens
DownloadUrl(name) == <<"/", "o", "u", "t", "p", "u", "t", "/">> \o name

\* redirect and render_template
redirect(url) == [status |-> 302, location |-> url, template |-> ""]

render_template(name) ==
    [status |-> 200, location |-> <<>>, template |-> name]

\* An uploaded file, as far as the code can tell: the name the client gave
\* it, and what werkzeug's secure_filename returns for that name (the name
\* in ASCII after compatibility decomposition, its separators and spaces
\* turned into underscores, stripped of every character but letters, digits,
\* underscores, dots and hyphens, and of dots and underscores at its ends).
UploadedFiles ==
    { [filename |-> <<"s", "a", "m", "p", "l", "e", ".", "p", "d", "f">>,
       secure_filename |->
           <<"s", "a", "m", "p", "l", "e", ".", "p", "d", "f">>],
      [filename |-> <<".", ".", "/", "r", "\\u00e9", "s", "u", "m", "\\u00e9",
                      " ", "1", ".", "P", "D", "F">>,
       secure_filename |->
           <<"r", "e", "s", "u", "m", "e", "_", "1", ".", "P", "D", "F">>],
      [filename |-> <<"n", "o", "t", "e", "s", ".", "t", "x", "t">>,
       secure_filename |-> <<"n", "o", "t", "e", "s", ".", "t", "x", "t">>],
      [filename |-> <<"p", "d", "f">>,
       secure_filename |-> <<"p", "d", "f">>],
      [filename |-> <<>>, secure_filename |-> <<>>] }

\* the requests upload_file is sent: a GET; a POST without a part named
\* "file"; a POST with such a part
Requests ==
    { [method |-> "GET", url |-> FormUrl, files |-> {}],
      [method |-> "POST", url |-> FormUrl, files |-> {}] }
        \cup {[method |-> "POST", url |-> FormUrl,
               files |-> {[name |-> "file", file |-> f]}] :
                  f \in UploadedFiles}

\* request.files["file"]
FilePart(r) == (CHOOSE part \in r.files : part.name = "file").file

\* the line upload_file prints when process_pdf has raised
UploadFailed == "[ERROR]"

\* process_pdf is called by the test, with its stand-ins or with those of the
\* two it would need, or upload_file is sent a request, with the libraries
\* or with the stand-ins in place
InitProcessPdf ==
    /\ FnIdle
    /\ DocIdle
    /\ XlIdle
    /\ os_path \in PathModules
    /\ excel_name = None
    /\ output_folder = {}
    /\ result = None
    /\ upload_folder = {}
    /\ flashed = <<>>
    /\ response = NoResponse
    /\ \/ /\ \E b \in Bindings :
                /\ b[2] = fake_image_to_string
                /\ convert_from_path = b[1]
                /\ image_to_string = b[2]
          /\ path \in Paths
          /\ qpc = "entry"
          /\ request = NoRequest
          /\ upc = "idle"
       \/ /\ \E b \in Bindings :
                /\ b[1].stub = b[2].stub
                /\ convert_from_path = b[1]
                /\ image_to_string = b[2]
          /\ path = <<>>
          /\ qpc = "idle"
          /\ request \in Requests
          /\ upc = "entry"

\* lines 374, 394: a GET is answered with the form
ShowForm ==
    /\ upc = "entry"
    /\ request.method # "POST"
    /\ response' = render_template("index.html")
    /\ upc' = "done"
    /\ UNCHANGED <<fnVars, docVars, xlVars, bindings, procVars, request,
                   upload_folder, flashed>>

\* lines 376-378
NoFilePart ==
    /\ upc = "entry"
    /\ request.method = "POST"
    /\ \A part \in request.files : part.name # "file"
    /\ flashed' = Append(flashed, "No file part")
    /\ response' = redirect(request.url)
    /\ upc' = "done"
    /\ UNCHANGED <<fnVars, docVars, xlVars, bindings, procVars, request,
                   upload_folder>>

\* lines 379-382
NoSelectedFile ==
    /\ upc = "entry"
    /\ request.method = "POST"
    /\ \E part \in request.files : part.name = "file"
    /\ FilePart(request).filename = <<>>
    /\ flashed' = Append(flashed, "No selected file")
    /\ response' = redirect(request.url)
    /\ upc' = "done"
    /\ UNCHANGED <<fnVars, docVars, xlVars, bindings, procVars, request,
                   upload_folder>>

\* lines 383, 394: a file of another type is answered with the form
FileNotAllowed ==
    /\ upc = "entry"
    /\ request.method = "POST"
    /\ \E part \in request.files : part.name = "file"
    /\ FilePart(request).filename # <<>>
    /\ ~allowed_file(FilePart(request).filename)
    /\ response' = render_template("index.html")
    /\ upc' = "done"
    /\ UNCHANGED <<fnVars, docVars, xlVars, bindings, procVars, request,
                   upload_folder, flashed>>

\* lines 383-388: the file is saved under its secured name and process_pdf
\* is called with the path of the copy
SaveUpload ==
    /\ upc = "entry"
    /\ request.method = "POST"
    /\ \E part \in request.files : part.name = "file"
    /\ FilePart(request).filename # <<>>
    /\ allowed_file(FilePart(request).filename)
    /\ LET filename == FilePart(request).secure_filename
           filepath == join(os_path, UPLOAD_FOLDER, filename)
       IN  /\ upload_folder' = upload_folder \cup {filename}
           /\ path' = filepath
    /\ qpc' = "entry"
    /\ upc' = "processing"
    /\ UNCHANGED <<fnVars, docVars, xlVars, bindings, excel_name,
                   output_folder, result, request, flashed, response>>

\* lines 383-386: file.save raises (the folder cannot be written); no handler
\* is around it, and the exception leaves upload_file
SaveUploadRaises ==
    /\ upc = "entry"
    /\ request.method = "POST"
    /\ \E part \in request.files : part.name = "file"
    /\ FilePart(request).filename # <<>>
    /\ allowed_file(FilePart(request).filename)
    /\ upc' = "raised"
    /\ UNCHANGED <<fnVars, docVars, xlVars, bindings, procVars, request,
                   upload_folder, flashed, response>>

\* lines 388-389: process_pdf has returned the name of the workbook
RedirectToDownload ==
    /\ upc = "processing"
    /\ qpc = "returned"
    /\ response' = redirect(DownloadUrl(result))
    /\ upc' = "done"
    /\ UNCHANGED <<fnVars, docVars, xlVars, bindings, procVars, request,
                   upload_folder, flashed>>

\* lines 390-393: process_pdf has raised
ProcessingFailedHandled ==
    /\ upc = "processing"
    /\ qpc = "raised"
    /\ stdout' = Append(stdout, UploadFailed)
    /\ flashed' = Append(flashed, "Processing failed")
    /\ response' = redirect(request.url)
    /\ upc' = "done"
    /\ UNCHANGED <<fnVars, images, page_num, ocr_tables,
                   structured_text_data, all_data, ppc, xlVars, bindings,
                   procVars, request, upload_folder>>

\* line 401, lines 299-311: process_pdf_to_structured_data is entered
EnterExtraction ==
    /\ qpc = "entry"
    /\ qpc' = "extract"
    /\ all_data' = EmptyModel
    /\ ppc' = "tabula"
    /\ UNCHANGED <<fnVars, images, page_num, ocr_tables,
                   structured_text_data, stdout, xlVars, bindings, webVars,
                   path, excel_name, output_folder, result>>

\* lines 401, 413-415: the extraction has raised
ExtractionRaised ==
    /\ qpc = "extract"
    /\ ppc = "raised"
    /\ stdout' = Append(stdout, ProcessingFailed)
    /\ qpc' = "raised"
    /\ UNCHANGED <<fnVars, images, page_num, ocr_tables,
                   structured_text_data, all_data, ppc, xlVars, bindings,
                   webVars, path, excel_name, output_folder, result>>

\* lines 403-407: the workbook is built and saved under its name
SaveWorkbook ==
    /\ qpc = "extract"
    /\ ppc = "done"
    /\ excel_name' = ExcelName(os_path, path)
    /\ output_folder' =
          {f \in output_folder : f.name # excel_name'}
              \cup {[name |-> excel_name',
                     wb |-> create_consolidated_excel(all_data)]}
    /\ qpc' = "saved"
    /\ UNCHANGED <<fnVars, docVars, xlVars, bindings, webVars, path, result>>

\* lines 403-407, 413-415: wb.save raises (the folder cannot be written)
SaveRaises ==
    /\ qpc = "extract"
    /\ ppc = "done"
    /\ excel_name' = ExcelName(os_path, path)
    /\ stdout' = Append(stdout, ProcessingFailed)
    /\ qpc' = "raised"
    /\ UNCHANGED <<fnVars, images, page_num, ocr_tables,
                   structured_text_data, all_data, ppc, xlVars, bindings,
                   webVars, path, output_folder, result>>

\* lines 409-410
ReturnExcelName ==
    /\ qpc = "saved"
    /\ result' = excel_name
    /\ qpc' = "returned"
    /\ UNCHANGED <<fnVars, docVars, xlVars, bindings, webVars, path,
                   excel_name, output_folder>>

NextProcessPdf ==
    \/ ShowForm
    \/ NoFilePart
    \/ NoSelectedFile
    \/ FileNotAllowed
    \/ SaveUpload
    \/ SaveUploadRaises
    \/ EnterExtraction
    \/ ExtractTablesWithTabula
    \/ ExtractTablesWithCamelot
    \/ ConvertFromPath
    \/ ConvertFromPathRaises
    \/ ProcessPage
    \/ ReturnAllData
    \/ ExtractionRaised
    \/ SaveWorkbook
    \/ SaveRaises
    \/ ReturnExcelName
    \/ RedirectToDownload
    \/ ProcessingFailedHandled

SpecProcessPdf == InitProcessPdf /\ [][NextProcessPdf]_vars

-----------------------------------------------------------------------------
(* Claims about detect_table_patterns_in_text. *)

\* the trimmed lines of the text, blank ones included
StrippedLines == [k \in 1..Len(lines) |-> strip(lines[k])]

NonBlankLines == SelectSeq(StrippedLines, LAMBDA l : l # <<>>)

\* a line that splits into at least two cells
IsTabularLine(l) == Len(RowCells(l)) >= 2

\* the maximal runs of consecutive tabular lines of L that have at least two
\* lines, in order, each as its rows
RECURSIVE RunsFrom(_, _)
RunsFrom(L, s) ==
    IF s > Len(L) THEN <<>>
    ELSE IF ~IsTabularLine(L[s]) THEN RunsFrom(L, s + 1)
    ELSE LET e == Max({j \in s..Len(L) :
                          \A k \in s..j : IsTabularLine(L[k])})
         IN  (IF e - s + 1 >= 2
              THEN << [k \in 1..(e - s + 1) |-> RowCells(L[s + k - 1])] >>
              ELSE <<>>)
             \o RunsFrom(L, e + 1)

ExpectedTables(L) == RunsFrom(L, 1)

\* C2: every table the detector has emitted, during the scan or at the final
\* flush, has at least 2 rows, and each of its rows has at least 2 cells,
\* none of them empty.
C2_TableMinSize ==
    \A t \in 1..Len(potential_tables) :
        /\ Len(potential_tables[t]) >= 2
        /\ \A r \in 1..Len(potential_tables[t]) :
              /\ Len(potential_tables[t][r]) >= 2
              /\ \A c \in 1..Len(potential_tables[t][r]) :
                    /\ potential_tables[t][r][c] # <<>>
                    /\ strip(potential_tables[t][r][c])
                          = potential_tables[t][r][c]

\* a table was emitted during the scan and another one by the final flush
C2_Witness ==
    /\ pc = "detect_done"
    /\ Len(potential_tables) = 2
    /\ Len(current_table) >= 2

\* C3 as stated: a blank line closes and clears the candidate, so the tables
\* are the runs of tabular lines with blank lines counted as boundaries.
C3_BlankLineCloses ==
    pc = "detect_done" => potential_tables = ExpectedTables(StrippedLines)

\* C3 as amended: a blank line is skipped and neither closes nor clears the
\* candidate, so the tables are the runs of tabular lines of the text with
\* its blank lines left out; tabular lines separated only by blank lines are
\* consecutive rows of one table.
C3_BlankLineSkipped ==
    pc = "detect_done" => potential_tables = ExpectedTables(NonBlankLines)

\* two tabular lines with only a blank line between them came out as one
\* table of two rows
C3_Witness ==
    /\ pc = "detect_done"
    /\ Len(lines) = 3
    /\ IsTabularLine(StrippedLines[1])
    /\ StrippedLines[2] = <<>>
    /\ IsTabularLine(StrippedLines[3])
    /\ potential_tables
          = << <<RowCells(StrippedLines[1]), RowCells(StrippedLines[3])>> >>

\* C4: for a text without blank lines the tables returned are exactly the
\* maximal runs of at least 2 consecutive tabular lines, in order, the run
\* that ends at the last line included.
C4_MaximalRuns ==
    (pc = "detect_done" /\ \A k \in 1..Len(lines) : StrippedLines[k] # <<>>)
        => potential_tables = ExpectedTables(StrippedLines)

\* two runs on either side of a non-tabular line, the second one flushed at
\* the end of the text
C4_Witness ==
    /\ pc = "detect_done"
    /\ \A k \in 1..Len(lines) : StrippedLines[k] # <<>>
    /\ \E k \in 1..Len(lines) : ~IsTabularLine(StrippedLines[k])
    /\ Len(potential_tables) = 2
    /\ IsTabularLine(StrippedLines[Len(lines)])

-----------------------------------------------------------------------------
(* Claims about extract_structured_data_from_text. *)

BucketNames == {"headers", "lists", "paragraphs", "financial_data"}

\* the trimmed, non-blank lines the loop has consumed, in order
Consumed ==
    SelectSeq([k \in 1..idx |-> strip(lines[k])], LAMBDA l : l # <<>>)

\* the same lines as a set
ConsumedSet == {strip(lines[k]) : k \in 1..idx} \ {<<>>}

Count(seq, v) == Cardinality({i \in 1..Len(seq) : seq[i] = v})

InBucket(b, l) ==
    \E i \in 1..Len(structured_data[b]) : structured_data[b][i] = l

InNoBucket(l) == \A b \in BucketNames : ~InBucket(b, l)

OnlyIn(b, l) ==
    InBucket(b, l) /\ \A o \in BucketNames \ {b} : ~InBucket(o, l)

BucketTotal ==
    Len(structured_data.headers) + Len(structured_data.lists)
        + Len(structured_data.paragraphs)
        + Len(structured_data.financial_data)

CharsOf(l) == {l[i] : i \in 1..Len(l)}

\* C5: every bucket entry is a non-empty trimmed line of the text, a line
\* is placed in at most one bucket and at most once, and so the buckets
\* hold together at most as many entries as the text has non-blank lines.
C5_AtMostOneBucket ==
    LET c == Consumed
    IN  /\ \A b \in BucketNames : \A i \in 1..Len(structured_data[b]) :
              /\ structured_data[b][i] # <<>>
              /\ strip(structured_data[b][i]) = structured_data[b][i]
              /\ Count(c, structured_data[b][i]) >= 1
        /\ \A k \in 1..Len(c) :
              Count(structured_data.headers, c[k])
                  + Count(structured_data.lists, c[k])
                  + Count(structured_data.paragraphs, c[k])
                  + Count(structured_data.financial_data, c[k])
                <= Count(c, c[k])
        /\ BucketTotal <= Len(c)

\* a text with a blank line and a line that satisfies two rules at once
C5_Witness ==
    /\ pc = "extract_done"
    /\ \E k \in 1..Len(lines) : strip(lines[k]) = <<>>
    /\ \E l \in ConsumedSet : IsHeader(l) /\ IsListItem(l)
    /\ BucketTotal = 2

\* C6: the bucket of a line is that of the first rule it satisfies, in the
\* order Header, ListItem, Financial, Paragraph: a header whatever else it
\* matches, a list item whatever its length or content, and with none of
\* the three a paragraph exactly when longer than 50 characters.
C6_FirstMatchWins ==
    \A l \in ConsumedSet :
        LET h == IsHeader(l)
        IN  /\ h => OnlyIn("headers", l)
            /\ (~h /\ IsListItem(l)) => OnlyIn("lists", l)
            /\ (~h /\ ~IsListItem(l) /\ IsFinancial(l))
                  => OnlyIn("financial_data", l)
            /\ (~h /\ ~IsListItem(l) /\ ~IsFinancial(l))
                  => /\ Len(l) > 50 => OnlyIn("paragraphs", l)
                     /\ Len(l) <= 50 => InNoBucket(l)

\* a header that holds an amount, a list item that holds an amount and a
\* line of 51 characters, each in its bucket
C6_Witness ==
    /\ pc = "extract_done"
    /\ \E l \in ConsumedSet :
          /\ IsHeader(l) /\ IsFinancial(l)
          /\ InBucket("headers", l)
    /\ \E l \in ConsumedSet :
          /\ IsListItem(l) /\ IsFinancial(l)
          /\ InBucket("lists", l)
    /\ \E l \in ConsumedSet :
          Len(l) = 51 /\ InBucket("paragraphs", l)

\* the line starts with "Chapter", "Section" or "Part"
HasHeaderPrefix(l) ==
    \E p \in { <<"C", "h", "a", "p", "t", "e", "r">>,
               <<"S", "e", "c", "t", "i", "o", "n">>,
               <<"P", "a", "r", "t">> } :
        Len(l) >= Len(p) /\ \A i \in 1..Len(p) : l[i] = p[i]

\* C7 as stated: a header is a line under 100 characters that holds no
\* lower-case letter or starts with one of the prefixes.
C7_HeaderRuleAsStated ==
    \A l \in ConsumedSet :
        InBucket("headers", l)
            <=> /\ Len(l) < 100
                /\ \/ CharsOf(l) \cap LowerLetters = {}
                   \/ HasHeaderPrefix(l)

\* C7 as amended: a header is a line under 100 characters that either holds
\* at least one upper-case letter and no lower-case letter, or starts with
\* one of the prefixes; a line of digits and punctuation only is no header.
C7_HeaderRule ==
    \A l \in ConsumedSet :
        InBucket("headers", l)
            <=> /\ Len(l) < 100
                /\ \/ /\ CharsOf(l) \cap LowerLetters = {}
                      /\ CharsOf(l) \cap UpperLetters # {}
                   \/ HasHeaderPrefix(l)

\* a short line without any letter was classified and is no header
C7_Witness ==
    /\ pc = "extract_done"
    /\ \E l \in ConsumedSet :
          /\ CharsOf(l) \cap (LowerLetters \cup UpperLetters) = {}
          /\ Len(l) < 100
          /\ ~InBucket("headers", l)

\* at position j: a whitespace character, or a period and then one
PeriodSpaceAt(l, j) ==
    \/ j <= Len(l) /\ l[j] \in Whitespace
    \/ j + 1 <= Len(l) /\ l[j] = "." /\ l[j + 1] \in Whitespace

\* one bullet glyph, or a sequence of digits, then PeriodSpaceAt
OneGlyphShape(l) ==
    \/ Len(l) >= 1 /\ l[1] \in {BULLET, "-", "*"} /\ PeriodSpaceAt(l, 2)
    \/ \E n \in 1..Len(l) :
          (\A i \in 1..n : l[i] \in Digits) /\ PeriodSpaceAt(l, n + 1)

\* a non-empty run of bullet glyphs and digits in any mixture, then
\* PeriodSpaceAt
GlyphRunShape(l) ==
    \E n \in 1..Len(l) :
        /\ \A i \in 1..n : l[i] \in {BULLET, "-", "*"} \cup Digits
        /\ PeriodSpaceAt(l, n + 1)

\* C8 as stated: a line that is no header is a list item exactly when it
\* starts with a single bullet glyph or with digits, then an optional
\* period, then whitespace.
C8_ListRuleAsStated ==
    \A l \in ConsumedSet :
        ~InBucket("headers", l)
            => (InBucket("lists", l) <=> OneGlyphShape(l))

\* C8 as amended: a line that is no header is a list item exactly when it
\* starts with a non-empty run of bullet glyphs and digits, mixed and
\* repeated freely, then an optional period, then whitespace.
C8_ListRule ==
    \A l \in ConsumedSet :
        ~InBucket("headers", l)
            => (InBucket("lists", l) <=> GlyphRunShape(l))

\* a line that starts with a mixed or repeated run was made a list item
C8_Witness ==
    /\ pc = "extract_done"
    /\ \E l \in ConsumedSet :
          /\ InBucket("lists", l)
          /\ ~OneGlyphShape(l)

IsDigitAt(l, i) == i <= Len(l) /\ l[i] \in Digits

IsSlashAt(l, i) == i <= Len(l) /\ l[i] = "/"

\* the line holds digit(s), slash, digit(s), slash, two digits: the shortest
\* forms of a date of 1-2, 1-2 and 2-4 digits
HoldsDate(l) ==
    \E p \in 1..Len(l) :
        /\ IsDigitAt(l, p) /\ IsSlashAt(l, p + 1) /\ IsDigitAt(l, p + 2)
        /\ \/ IsSlashAt(l, p + 3) /\ IsDigitAt(l, p + 4) /\ IsDigitAt(l, p + 5)
           \/ /\ IsDigitAt(l, p + 3) /\ IsSlashAt(l, p + 4)
              /\ IsDigitAt(l, p + 5) /\ IsDigitAt(l, p + 6)

\* the line holds a dollar sign immediately followed by one of `next`
HoldsDollarThen(l, next) ==
    \E i \in 1..(Len(l) - 1) : l[i] = "$" /\ l[i + 1] \in next

NeitherHeaderNorList(l) == ~InBucket("headers", l) /\ ~InBucket("lists", l)

\* C9 as stated: a line that is neither header nor list item is financial
\* exactly when it holds a dollar sign immediately followed by a digit, or
\* a date.
C9_FinancialRuleAsStated ==
    \A l \in ConsumedSet :
        NeitherHeaderNorList(l)
            => (InBucket("financial_data", l)
                   <=> (HoldsDollarThen(l, Digits)
                           \/ HoldsDate(l)))

\* C9 as amended: a line that is neither header nor list item is financial
\* exactly when it holds a dollar sign immediately followed by a digit or
\* a comma, or a date; a percentage alone does not make it financial.
C9_FinancialRule ==
    \A l \in ConsumedSet :
        NeitherHeaderNorList(l)
            => (InBucket("financial_data", l)
                   <=> (HoldsDollarThen(l, Digits \cup {","})
                           \/ HoldsDate(l)))

\* a line whose dollar sign is followed by a comma, and that holds neither a
\* dollar sign before a digit nor a date, was made financial
C9_Witness ==
    /\ pc = "extract_done"
    /\ \E l \in ConsumedSet :
          /\ InBucket("financial_data", l)
          /\ ~HoldsDollarThen(l, Digits)
          /\ ~HoldsDate(l)

-----------------------------------------------------------------------------
(* Claims about process_pdf_to_structured_data. *)

\* the text of page k as the page loop sees it
PageText(k) == extract_text_with_ocr(images[k])

\* the sequences of a sequence, one after the other
RECURSIVE Flatten(_)
Flatten(ss) ==
    IF Len(ss) = 0 THEN <<>>
    ELSE Flatten(SubSeq(ss, 1, Len(ss) - 1)) \o ss[Len(ss)]

\* what the two functions return on each of pages 1..n, page by page
RECURSIVE PerPage(_)
PerPage(n) ==
    IF n = 0 THEN <<>>
    ELSE Append(PerPage(n - 1),
                [buckets |-> extract_structured_data_from_text(PageText(n)),
                 tables |-> detect_table_patterns_in_text(PageText(n))])

\* C1: during and after the page loop each of the four buckets is the
\* concatenation, in page order, of that bucket of every page consumed, and
\* ocr_tables is the concatenation in page order of the tables detected on
\* every page consumed; the returned model holds exactly these sequences.
C1_PageOrder ==
    ppc \in {"loop", "done"} =>
        LET pages == PerPage(page_num)
            bucket(b) == Flatten([k \in 1..page_num |-> pages[k].buckets[b]])
            tables == Flatten([k \in 1..page_num |-> pages[k].tables])
        IN  /\ \A b \in BucketNames : structured_text_data[b] = bucket(b)
            /\ ocr_tables = tables
            /\ ppc = "done" =>
                  /\ page_num = Len(images)
                  /\ \A b \in BucketNames : all_data[b] = bucket(b)
                  /\ all_data.ocr_tables = tables

\* two pages, each with a header and a table of its own, were merged
C1_Witness ==
    /\ ppc = "done"
    /\ Len(images) = 2
    /\ Len(all_data.headers) = 2
    /\ all_data.headers[1] # all_data.headers[2]
    /\ Len(all_data.ocr_tables) = 2
    /\ all_data.ocr_tables[1] # all_data.ocr_tables[2]

\* a text of whitespace only: empty, or nothing but blank lines
BlankOnly(t) == \A i \in 1..Len(t) : t[i] \in Whitespace

\* both functions return nothing on every enumerated text of whitespace only
BlankTextsDegrade ==
    \A t \in BlankTexts :
        /\ extract_structured_data_from_text(t) = EmptyBuckets
        /\ detect_table_patterns_in_text(t) = <<>>

\* C10: on the empty text and on a text of blank lines only the classifier
\* returns four empty buckets and the detector no table; a document with no
\* page, or with such pages only, yields a model whose four buckets and
\* ocr_tables are empty.
C10_EmptyDegrades ==
    /\ BlankTextsDegrade
    /\ (ppc \in {"loop", "done"}
          /\ \A k \in 1..page_num : BlankOnly(images[k].read))
        => (ocr_tables = <<>> /\ structured_text_data = EmptyBuckets)
    /\ (ppc = "done" /\ \A k \in 1..Len(images) : BlankOnly(images[k].read))
        => /\ all_data.ocr_tables = <<>>
           /\ \A b \in BucketNames : all_data[b] = <<>>

\* a document of an empty page and a page of blank lines was processed
C10_Witness ==
    /\ ppc = "done"
    /\ Len(images) = 2
    /\ ~images[1].raises /\ images[1].read = <<>>
    /\ ~images[2].raises /\ images[2].read # <<>>
    /\ BlankOnly(images[2].read)
    /\ all_data.ocr_tables = <<>>
    /\ all_data.headers = <<>>


\* the pages among the first n on which OCR has failed
PagesFailed(n) == {k \in 1..n : images[k].raises}

\* the failures so far have left an empty contribution and a warning each
Absorbed ==
    /\ Count(stdout, TabulaFailed) > 0 => all_data.tabula_tables = <<>>
    /\ Count(stdout, CamelotFailed) > 0 => all_data.camelot_tables = <<>>
    /\ ppc \in {"loop", "done"} =>
          Count(stdout, OcrFailed) = Cardinality(PagesFailed(page_num))
    /\ ppc = "done" =>
          /\ page_num = Len(images)
          /\ all_data.ocr_tables = ocr_tables
          /\ \A b \in BucketNames : all_data[b] = structured_text_data[b]

\* a page on which OCR fails adds nothing to what has been gathered, and the
\* loop goes on to the next page
FailedPageSkipped ==
    (ppc = "loop" /\ page_num < Len(images) /\ images[page_num + 1].raises)
        => /\ ocr_tables' = ocr_tables
           /\ structured_text_data' = structured_text_data
           /\ page_num' = page_num + 1
           /\ ppc' = "loop"

\* C12 as stated: the failures of Tabula, of Camelot and of OCR on a page are
\* absorbed as empty contributions, and the function, once started, never
\* raises and eventually returns the model.
C12_NeverAborts ==
    /\ []Absorbed
    /\ [][FailedPageSkipped]_vars
    /\ [](ppc # "raised")
    /\ (ppc = "tabula") ~> (ppc = "done")

\* C12: a failure of Tabula, of Camelot or of OCR on a page is absorbed as an
\* empty contribution; the function raises only out of the call of the page
\* renderer; once the pages are rendered every page is processed in page
\* order and the function returns the model; and every run of the function
\* ends, by the return of the model or by the renderer's exception.
C12_FailuresAbsorbed ==
    /\ []Absorbed
    /\ [][FailedPageSkipped]_vars
    /\ [][ppc' = "raised" => ppc = "convert"]_vars
    /\ [][ppc = "loop" =>
            \/ ppc' = "loop" /\ page_num' = page_num + 1
            \/ ppc' = "done" /\ page_num = Len(images)]_vars
    /\ (ppc = "loop") ~> (ppc = "done")
    /\ (ppc = "tabula") ~> (ppc \in {"done", "raised"})

\* Tabula, Camelot and OCR on the first of two pages have failed, and the
\* function has returned a model that holds what the second page reads
C12_Witness ==
    /\ ppc = "done"
    /\ stdout = <<TabulaFailed, CamelotFailed, OcrFailed>>
    /\ Len(images) = 2
    /\ images[1].raises
    /\ ~images[2].raises
    /\ all_data.tabula_tables = <<>>
    /\ all_data.headers # <<>>
    /\ all_data.ocr_tables # <<>>
-----------------------------------------------------------------------------
(* Claims about create_consolidated_excel. *)

\* the table has a cell at all: a row, and a column in it
HasCells(t) == \E i \in 1..Len(t) : Len(t[i]) > 0

\* the list of rows is not empty
HasRows(t) == Len(t) > 0

\* the cell is missing, or a string of whitespace only
BlankCell(c) ==
    \/ c \in {NaN, None}
    \/ \A i \in 1..Len(c) : c[i] \in Whitespace

\* some cell of the table is not blank
HasValue(t) ==
    \E i \in 1..Len(t) : \E j \in 1..Len(t[i]) : ~BlankCell(t[i][j])

Tagged(name, ts) == [k \in 1..Len(ts) |-> <<name, ts[k]>>]

AsFrames(ts) == [k \in 1..Len(ts) |-> DataFrame(ts[k])]

\* the tables of the model that pass the two tests, tagged, in model order
KeptTables(NativeTest(_), ListTest(_)) ==
    Tagged("Tabula Table", SelectSeq(all_data.tabula_tables, NativeTest))
        \o Tagged("Camelot Table",
                  SelectSeq(all_data.camelot_tables, NativeTest))
        \o Tagged("OCR Table",
                  AsFrames(SelectSeq(all_data.ocr_tables, ListTest)))

TablesAre(kept) ==
    /\ xpc \notin {"idle", "entry"} => all_tables = kept
    /\ xpc = "done" => ws_summary[1] = <<"Total Tables", Len(kept)>>

\* C11 as stated: the tables kept at consolidation, and counted in "Total
\* Tables", are exactly the tables with a cell that is not blank, in their
\* original order.
C11_AllBlankDropped == TablesAre(KeptTables(HasValue, HasValue))

\* C11: the tables kept at consolidation, and counted in "Total Tables", are
\* exactly the native tables that have a row and a column and the OCR tables
\* that have a row, in their original order; a native table whose cells are
\* all blank or missing is kept and counted.
C11_EmptyFramesDropped == TablesAre(KeptTables(HasCells, HasRows))

\* a model with a frame of no row, a frame of missing cells only and a frame
\* with values has been written: the first is dropped, the others are kept
C11_Witness ==
    /\ xpc = "done"
    /\ all_data.tabula_tables = << <<>>, << <<NaN, NaN>> >> >>
    /\ all_data.camelot_tables # <<>>
    /\ all_data.ocr_tables = << <<>>,
                                << << <<"u">>, <<"v">>, <<"w">> >>,
                                   << <<"s">>, <<"t">> >> >> >>
    /\ Len(all_tables) = 4
    /\ all_tables[1] = <<"Tabula Table", << <<NaN, NaN>> >> >>
    /\ ws_summary[1] = <<"Total Tables", 4>>

\* every cell of the row is missing
MissingRow(row) == \A j \in 1..Len(row) : row[j] \in {NaN, None}

WrittenRow(row) == ~MissingRow(row)

NotBlank(entry) == \E i \in 1..Len(entry) : entry[i] \notin Whitespace

\* the rows of the frames that have a cell that is not missing, in order
RowsOf(frames) ==
    Flatten([k \in 1..Len(frames) |-> SelectSeq(frames[k], WrittenRow)])

\* the entries of a bucket that are not blank, in order, each a one-cell row
EntriesOf(bucket) ==
    LET kept == SelectSeq(bucket, NotBlank)
    IN  [k \in 1..Len(kept) |-> <<kept[k]>>]

\* the groups of rows of the input model, in the order of the Data sheet
Groups ==
    << RowsOf(all_data.tabula_tables)
           \o RowsOf(all_data.camelot_tables)
           \o RowsOf(AsFrames(all_data.ocr_tables)),
       EntriesOf(all_data.headers),
       EntriesOf(all_data.financial_data),
       EntriesOf(all_data.lists),
       EntriesOf(all_data.paragraphs) >>

\* how many of the groups the writer has been through
GroupsDone ==
    CASE xpc = "tables" -> 0
      [] xpc = "headers" -> 1
      [] xpc = "financial_data" -> 2
      [] xpc = "lists" -> 3
      [] xpc = "paragraphs" -> 4
      [] OTHER -> 5

\* C14: the Data sheet is one gap-free block: the rows written so far are
\* rows 1..current_row-1, written in increasing order and no cell twice, and
\* they are, in this order, the rows with a value of the Tabula, the Camelot
\* and the OCR tables, then the entries that are not blank of headers, of
\* financial_data, of lists and of paragraphs, each in its input order.
C14_GapFreeBlock ==
    xpc \notin {"idle", "entry"} =>
        LET expected == Flatten(SubSeq(Groups, 1, GroupsDone))
        IN  /\ {ws_main[i].row : i \in 1..Len(ws_main)} = 1..(current_row - 1)
            /\ \A i, k \in 1..Len(ws_main) :
                  i < k => /\ ws_main[i].row <= ws_main[k].row
                           /\ <<ws_main[i].row, ws_main[i].column>>
                                  # <<ws_main[k].row, ws_main[k].column>>
            /\ Len(expected) = current_row - 1
            /\ \A r \in 1..Len(expected) :
                  /\ \A i \in 1..Len(ws_main) :
                        ws_main[i].row = r =>
                            ws_main[i].column \in 1..Len(expected[r])
                  /\ \A j \in 1..Len(expected[r]) :
                        \E i \in 1..Len(ws_main) :
                            ws_main[i] = [row |-> r, column |-> j,
                                          value |-> expected[r][j]]

\* a model with rows of missing cells among its table rows and blank entries
\* among its bucket entries has been written: twelve rows, every group there
C14_Witness ==
    /\ xpc = "done"
    /\ all_data.tabula_tables =
          << << <<NaN>>, << <<"a">> >>, <<NaN>> >>,
             << << <<>>, <<" ">> >>, << <<"b">>, NaN >> >> >>
    /\ all_data.camelot_tables # <<>>
    /\ Len(all_data.ocr_tables) = 2
    /\ Len(all_data.headers) = 4
    /\ all_data.financial_data # <<>>
    /\ all_data.lists # <<>>
    /\ all_data.paragraphs # <<>>
    /\ current_row = 13
    /\ ws_main[Len(ws_main)] = [row |-> 12, column |-> 1, value |-> <<"p">>]

-----------------------------------------------------------------------------
(* Claims about process_pdf. *)

\* the renderer and the OCR engine are the stand-ins of the test
StubbedRun ==
    /\ convert_from_path = fake_convert_from_path
    /\ image_to_string = fake_image_to_string

\* a file of that name is in the output folder
Saved(name) == \E f \in output_folder : f.name = name

\* a name is returned only when the workbook has been saved under it, and
\* none when a step has raised
NameOnlyAfterSave ==
    /\ qpc = "returned" =>
          /\ result = ExcelName(os_path, path)
          /\ Saved(result)
    /\ result # None => qpc = "returned"
    /\ qpc = "raised" => result = None

\* C13 as stated: run with the stand-ins of the test, process_pdf does not
\* raise but returns a file name, and a workbook of that name is then in the
\* output folder; in any run a name is returned only after the workbook has
\* been saved under it, and none is returned when a step has raised.
C13_StubbedRunReturns ==
    /\ StubbedRun => qpc # "raised"
    /\ NameOnlyAfterSave

\* C13, what the code does: in any run a name is returned only after the
\* workbook built from the model has been saved under it, and none when a
\* step has raised; run with the stand-ins of the test, process_pdf never
\* gets to the page loop, saves nothing and returns nothing.  When it has
\* raised, the last line printed is that of its handler, until upload_file,
\* where it is the caller, has printed its own after it.
C13_ReturnsAfterSave ==
    /\ NameOnlyAfterSave
    /\ qpc \in {"saved", "returned"} =>
          [name |-> ExcelName(os_path, path),
           wb |-> create_consolidated_excel(all_data)] \in output_folder
    /\ qpc = "raised" =>
          \/ /\ upc # "done"
             /\ stdout[Len(stdout)] = ProcessingFailed
          \/ /\ upc = "done"
             /\ stdout[Len(stdout)] = UploadFailed
             /\ stdout[Len(stdout) - 1] = ProcessingFailed
    /\ StubbedRun =>
          /\ ppc \notin {"loop", "done"}
          /\ qpc \notin {"saved", "returned"}
          /\ output_folder = {}

\* the run of the test has ended: the call of the renderer has raised, and
\* process_pdf has raised, with no name returned and no workbook saved
C13_Witness ==
    /\ StubbedRun
    /\ upc = "idle"
    /\ basename(os_path, path) = <<"s", "a", "m", "p", "l", "e", ".", "p", "d", "f">>
    /\ qpc = "raised"
    /\ ppc = "raised"
    /\ images = <<>>
    /\ result = None
    /\ output_folder = {}

=============================================================================
